---------------------------- MODULE Spec2Model ----------------------------
(***************************************************************************)
(* Solar time / geolocation core of iching-kt-sdk.                         *)
(*                                                                         *)
(* Components, one group of variables and one specification each:         *)
(*   SpecSelect     getBestLocator / getStatus of the CompositeGeoLocator  *)
(*                  as pure functions of the locators and their statuses   *)
(*   SpecComposite  the CompositeGeoLocator state machine                  *)
(*   SpecTz         the TimezoneGeoLocator                                 *)
(*   SpecGps        the GpsGeoLocator                                      *)
(*   SpecProvider   the SolarTimeProvider                                  *)
(*                                                                         *)
(* A JavaScript Set of callbacks is a sequence without duplicates (a Set   *)
(* iterates in insertion order, and adding a member again changes          *)
(* nothing).  Every handler of the source is one atomic action: the event  *)
(* loop is single threaded, and a promise that is awaited resolves in a    *)
(* later step of its own.  lastOp names the handler that ran last.         *)
(***************************************************************************)
EXTENDS Integers, Sequences, FiniteSets, TLC

VARIABLES
  lastOp,                  \* name of the handler that ran last
  \* ---- underlying locators of the composite (the GeoLocator capability)
  locators,                \* config.locators: sequence of [id, maxPrecision]
  locStatus,               \* what locators[i].getStatus() returns now
  locSubs,                 \* callbacks of the composite registered on locator i
  permCalls,               \* requestPermission() calls received by locator i, unanswered
  \* ---- CompositeGeoLocator
  c_listeners,
  c_unsubscribers,         \* keys of the unsubscribers Map
  c_currentPosition,
  c_currentBestLocatorId,
  c_reevaluationInterval,  \* TRUE when the handle is not null
  c_timers,                \* live setInterval timers of the composite
  c_closures,              \* callbacks an unsubscribe closure was returned for
  c_switched,              \* <<from, to>>: the handler that ran last moved the
                           \* subscription from locator from to locator to
  \* ---- TimezoneGeoLocator
  tz_listeners,
  tz_intervalId,           \* TRUE when the handle is not null
  tz_timers,               \* live setInterval timers of the locator
  tz_handles,              \* unsubscribe closures handed out, per callback
  tz_offset,               \* what new Date().getTimezoneOffset() returns
  tz_out,                  \* what the last handler returned and delivered
  \* ---- GpsGeoLocator
  gps_listeners,
  gps_closures,            \* callbacks an unsubscribe closure was returned for
  gps_watchSubscription,   \* TRUE when the handle is not null
  gps_watches,             \* live watches of the platform (watchPositionAsync resolved,
                           \* remove() not called)
  gps_pendingWatch,        \* watchPositionAsync calls not yet resolved
  gps_currentPosition,
  gps_permissionState,
  gps_lastEmittedStatus,
  gps_statusListeners,
  gps_statusDelivered,     \* per status callback, the status it was called with last
  gps_statusLog,           \* calls of status listeners made by the last handler, in order
  gps_queries,             \* platform calls not yet resolved, per kind, and which
                           \* permission query a later request has overtaken
  \* ---- SolarTimeProvider and the geolocator it is configured with
  p_listeners,
  p_closures,              \* callbacks an unsubscribe closure was returned for
  p_timeTimeoutId,         \* TRUE when the id is not null
  p_timers,                \* pending setTimeout timers
  p_geoUnsubscribe,        \* TRUE when the closure is not null
  p_geoSubs,               \* subscriptions of the provider held by the geolocator
  p_currentData,
  p_now,                   \* the clock new Date() reads
  g_currentPosition,       \* geoLocator.currentPosition
  p_received,              \* per callback, the newest civilTime delivered to it
  p_log,                   \* deliveries made by the last handler, in call order
  p_computed,              \* getCurrentSolarTimeData calls made by the last handler
  p_out,                   \* what the last handler returned, for getCurrentData()
  \* ---- calculator: calculateTrueSolarTime and getShichenFromSolarTime
  sol_zone,                \* the timezone of the device
  sol_civilTime,           \* argument of the last calculateTrueSolarTime call
  sol_longitude,           \* argument of the last calculateTrueSolarTime call
  sol_result,              \* what the last call returned
  sol_previous,            \* arguments and result of the call before it
  sh_solarTime,            \* argument of the last getShichenFromSolarTime call
  sh_result,               \* what the last call returned
  sh_previous,             \* what the call before it returned
  sh_run,                  \* consecutive calls, up to the last, with the same branch
  sh_sinceChange,          \* TRUE when that run began with a change of branch
  \* ---- TemporalNavigator
  nav_isTransitioning,     \* the React state, as of the last render
  nav_opacity,             \* fadeAnim, in percent
  nav_animation,           \* the Animated.timing that is running
  nav_direction,           \* direction captured by the running transition
  nav_index,               \* which of the parent's values is current
  nav_accepted,            \* presses that started a transition
  nav_called,              \* calls of onPrevious or onNext
  nav_log,                 \* steps of the transition under way, in order
  \* ---- HoursView
  hv_currentBranch,        \* solarTimeData.earthlyBranch
  hv_viewingOffset,        \* the React state
  hv_hourData,             \* branches of the current, previous and next props
                           \* of the last render
  \* ---- provider-time
  pt_time,                 \* what new Date() returned in getCurrentTimeData()
  pt_timeData,             \* what the last getCurrentTimeData() returned
  \* ---- results of the pure queries
  selected,                \* id returned by the last getBestLocator()
  statusResult             \* record returned by the last composite getStatus()

locVars  == <<locators, locStatus, locSubs, permCalls>>
compVars == <<c_listeners, c_unsubscribers, c_currentPosition,
              c_currentBestLocatorId, c_reevaluationInterval, c_timers,
              c_closures, c_switched>>
tzVars == <<tz_listeners, tz_intervalId, tz_timers, tz_handles, tz_offset, tz_out>>
gpsClosureVars == <<gps_listeners, gps_closures, gps_watchSubscription, gps_watches,
                    gps_pendingWatch, gps_currentPosition, gps_permissionState,
                    gps_lastEmittedStatus, gps_statusListeners, gps_queries>>
gpsVars == <<gpsClosureVars, gps_statusDelivered, gps_statusLog>>
providerVars == <<p_listeners, p_closures, p_timeTimeoutId, p_timers, p_geoUnsubscribe,
                  p_geoSubs, p_currentData, p_now, g_currentPosition, p_received,
                  p_log, p_computed, p_out>>
calcVars == <<sol_zone, sol_civilTime, sol_longitude, sol_result, sol_previous,
              sh_solarTime, sh_result, sh_previous, sh_run, sh_sinceChange>>
navVars == <<nav_isTransitioning, nav_opacity, nav_animation, nav_direction, nav_index,
             nav_accepted, nav_called, nav_log>>
queryVars == <<selected, statusResult>>
viewVars == <<hv_currentBranch, hv_viewingOffset, hv_hourData, pt_time, pt_timeData>>
vars == <<lastOp, locVars, compVars, tzVars, gpsVars, providerVars, calcVars, navVars, viewVars,
          queryVars>>
\* what the handlers of one component leave alone
othersOfSelect == <<tzVars, gpsVars, providerVars, calcVars, navVars, viewVars>>
othersOfComposite == <<tzVars, gpsVars, providerVars, calcVars, navVars, viewVars>>
othersOfTz == <<locVars, compVars, gpsVars, providerVars, calcVars, navVars, viewVars,
                     queryVars>>
othersOfGps == <<locVars, compVars, tzVars, providerVars, calcVars, navVars, viewVars,
                     queryVars>>
othersOfProvider == <<locVars, compVars, tzVars, gpsVars, calcVars, navVars, viewVars,
                     queryVars>>
othersOfCalc == <<locVars, compVars, tzVars, gpsVars, providerVars, navVars, viewVars,
                     queryVars>>
othersOfNav == <<locVars, compVars, tzVars, gpsVars, providerVars, calcVars, viewVars,
                queryVars>>
othersOfView == <<locVars, compVars, tzVars, gpsVars, providerVars, calcVars, navVars,
                 queryVars>>

(***************************************************************************)
(* Bounds of the model.                                                    *)
(***************************************************************************)
MaxSelectLocators == 3     \* locators of a composite, pure queries
MaxLocators == 2           \* locators of a composite, state machine
MaxPermCalls == 1          \* unanswered requestPermission() calls
MaxHandles == 2            \* unsubscribe closures of one callback never called so far
MaxTzTimers == 2           \* live timers of the timezone locator
MaxWatches == 2            \* live platform watches of the GPS locator
MaxPendingWatch == 2       \* unresolved watchPositionAsync calls
MaxQueries == 1            \* unresolved platform permission calls, per kind
MaxNow == 2                \* readings of the clock after construction
MaxViewingOffset == 13     \* hours the view is moved away from the current one

\* null, for a locator id, a position and a status
NoId == 0
NoPosition == [source |-> 0, precision |-> "none"]
NoSwitch == <<0, 0>>
NoStatus == [permissionState |-> "none", isAvailable |-> FALSE, currentPrecision |-> "none"]
Callbacks == {"f", "g"}
StatusCallbacks == {"s"}    \* the callback functions clients pass to subscribe

(***************************************************************************)
(* LocationPrecision, and the permission states the locators of the        *)
(* repository report: mapExpoPermissionStatus returns one of these three   *)
(* and the timezone locator reports granted.  (The type's fourth value,    *)
(* restricted, is produced nowhere; the code compares with granted only.)  *)
(***************************************************************************)
Precisions == {"high", "medium", "low"}
PermissionStates == {"undetermined", "granted", "denied"}
precisionOrder == [high |-> 3, medium |-> 2, low |-> 1]

(***************************************************************************)
(* Insertion-ordered Set of callbacks.                                     *)
(***************************************************************************)
Members(s) == {s[i] : i \in 1..Len(s)}
SetAdd(s, x) == IF x \in Members(s) THEN s ELSE Append(s, x)
SetDelete(s, x) == SelectSeq(s, LAMBDA y : y # x)

(***************************************************************************)
(* Unsubscribe closures.  A closure captures the callback it was created   *)
(* for; live counts the closures of that callback never called so far,     *)
(* called says that some closure of that callback has been called.         *)
(***************************************************************************)
NoHandles == [cb \in Callbacks |-> [live |-> 0, called |-> FALSE]]
HandOut(h, cb) == [h EXCEPT ![cb].live = @ + 1]
FirstCall(h, cb) == [h EXCEPT ![cb].live = @ - 1, ![cb].called = TRUE]

(***************************************************************************)
(* The underlying locators.                                                *)
(***************************************************************************)
Ids == 1..Len(locators)
Locator(i) == locators[i]
LocatorConfigs(n) ==
  {[i \in 1..n |-> [id |-> i, maxPrecision |-> p[i]]] : p \in [1..n -> Precisions]}
\* every status of a locator: its currentPrecision is at most its maxPrecision
StatusesOf(maxPrecision) ==
  [permissionState : PermissionStates, isAvailable : BOOLEAN,
   currentPrecision : {"low", maxPrecision}]
\* the statuses a locator goes through in SpecComposite: a locator reports a
\* precision above low only while it is granted and available, and is
\* unavailable only while granted (an unavailable locator without permission
\* is selected like an available one without permission)
LocatorStatuses(maxPrecision) ==
  {s \in StatusesOf(maxPrecision) :
     /\ s.currentPrecision # "low" => s.permissionState = "granted" /\ s.isAvailable
     /\ ~s.isAvailable => s.permissionState = "granted"}
\* a position pushed by locator i while its status is status[i]
PositionOf(status, i) == [source |-> i, precision |-> status[i].currentPrecision]

(***************************************************************************)
(* getBestLocator: [...locators].sort(descending precisionOrder), a stable *)
(* sort, then the first locator that is granted and available, else the    *)
(* last one of the sorted array.                                           *)
(***************************************************************************)
RECURSIVE InsertSorted(_, _)
InsertSorted(s, x) ==
  IF s = <<>> THEN <<x>>
  ELSE IF precisionOrder[x.maxPrecision] - precisionOrder[Head(s).maxPrecision] > 0
       THEN <<x>> \o s
       ELSE <<Head(s)>> \o InsertSorted(Tail(s), x)

RECURSIVE SortFrom(_, _)
SortFrom(i, acc) ==
  IF i > Len(locators) THEN acc ELSE SortFrom(i + 1, InsertSorted(acc, locators[i]))

sortedByPrecision == SortFrom(1, <<>>)

RECURSIVE FirstUsable(_, _, _)
FirstUsable(status, s, k) ==
  IF k > Len(s) THEN s[Len(s)]
  ELSE IF status[s[k].id].permissionState = "granted" /\ status[s[k].id].isAvailable
       THEN s[k]
       ELSE FirstUsable(status, s, k + 1)

RECURSIVE FirstGranted(_, _, _)
FirstGranted(status, s, k) ==
  IF k > Len(s) THEN s[Len(s)]
  ELSE IF status[s[k].id].permissionState = "granted" THEN s[k]
       ELSE FirstGranted(status, s, k + 1)

\* mutant: isAvailable is not looked at
getBestLocator_ignoresAvailable(status) == FirstGranted(status, sortedByPrecision, 1)

\* status: what each locator's getStatus() returns at the time of the call
getBestLocator(status) == FirstUsable(status, sortedByPrecision, 1)

(***************************************************************************)
(* getHighestPrecisionLocator: locators.reduce, keeping the earlier one    *)
(* on a tie.                                                               *)
(***************************************************************************)
RECURSIVE Reduce(_, _)
Reduce(k, best) ==
  IF k > Len(locators) THEN best
  ELSE Reduce(k + 1,
         IF precisionOrder[locators[k].maxPrecision] > precisionOrder[best.maxPrecision]
         THEN locators[k] ELSE best)

\* mutant: no reduce, the first locator of the configuration
getHighestPrecisionLocator_first == locators[1]

getHighestPrecisionLocator == Reduce(2, locators[1])

(***************************************************************************)
(* getStatus of the composite.                                             *)
(***************************************************************************)
\* mutant: the whole status is the best locator's
getStatus_allFromBest == locStatus[getBestLocator(locStatus).id]

getStatus ==
  LET bestStatus == locStatus[getBestLocator(locStatus).id]
      highestStatus == locStatus[getHighestPrecisionLocator.id]
  IN [permissionState |-> highestStatus.permissionState,
      isAvailable |-> highestStatus.isAvailable,
      currentPrecision |-> bestStatus.currentPrecision]


(***************************************************************************)
(* Initial values of each component's own state.                           *)
(***************************************************************************)
\* getTimezoneOffset() values: minutes behind UTC (Kathmandu, London, New York)
TzOffsets == {-345, 0, 300}
NoTzPosition == [longitude |-> 0, latitude |-> 0, precision |-> "none"]
TzNoOutput ==
  [status |-> NoStatus, permission |-> "none", position |-> NoTzPosition,
   delivered |-> <<>>]

TzInit(offsets) ==
  /\ tz_listeners = <<>>
  /\ tz_intervalId = FALSE
  /\ tz_timers = 0
  /\ tz_handles = NoHandles
  /\ tz_offset \in offsets
  /\ tz_out = TzNoOutput

NoAccuracy == -1                      \* coords.accuracy is null
NoGpsPosition == [precision |-> "none", accuracyMeters |-> NoAccuracy, fresh |-> FALSE]

\* createGpsGeoLocator: refreshPermissionState() is called during construction
GpsInit ==
  /\ gps_listeners = <<>>
  /\ gps_closures = {}
  /\ gps_watchSubscription = FALSE
  /\ gps_watches = 0
  /\ gps_pendingWatch = 0
  /\ gps_currentPosition = NoGpsPosition
  /\ gps_permissionState = "undetermined"
  /\ gps_lastEmittedStatus = NoStatus
  /\ gps_statusListeners = <<>>
  /\ gps_statusDelivered = [cb \in StatusCallbacks |-> NoStatus]
  /\ gps_statusLog = <<>>
  /\ gps_queries = [refresh |-> 1, request |-> 0, position |-> 0,
                    refreshBefore |-> FALSE, overtaken |-> FALSE]

(***************************************************************************)
(* Timezones of the device.  A zone is its standard offset in minutes east *)
(* of UTC, the minutes DST adds and the months DST is in effect in; the    *)
(* offsets are those of one year.                                          *)
(***************************************************************************)
Months == 1..12
NorthernDst == 4..10
SouthernDst == {10, 11, 12, 1, 2, 3}
Zones ==
  {[standard |-> -300, shift |-> 60, dst |-> NorthernDst],     \* New York
   [standard |-> 0, shift |-> 60, dst |-> NorthernDst],        \* London
   [standard |-> 600, shift |-> 60, dst |-> SouthernDst],      \* Sydney
   [standard |-> 630, shift |-> 30, dst |-> SouthernDst],      \* Lord Howe
   [standard |-> 345, shift |-> 0, dst |-> {}],                \* Kathmandu
   [standard |-> -600, shift |-> 0, dst |-> {}]}               \* Honolulu

NoSolarResult == [solarTime |-> [month |-> 0, minute |-> 0], offsetMinutes |-> 0]
NoSolarCall == [computed |-> FALSE, civilTime |-> [month |-> 0, minute |-> 0],
                longitude |-> 0, offsetMinutes |-> 0]
NoShichen == [index |-> 0, branch |-> "none", hexagramNumber |-> 0, progress |-> 0,
              minutesToNext |-> 0]

CalcInit(zones) ==
  /\ sol_zone \in zones
  /\ sol_civilTime = [month |-> 0, minute |-> 0]
  /\ sol_longitude = 0
  /\ sol_result = NoSolarResult
  /\ sol_previous = NoSolarCall
  /\ sh_solarTime = [hours |-> 0, minutes |-> 0]
  /\ sh_result = NoShichen
  /\ sh_previous = NoShichen
  /\ sh_run = 0
  /\ sh_sinceChange = FALSE

(***************************************************************************)
(* calculateTrueSolarTime.  A civil time is [month, minute]: the month of  *)
(* the year and the minute of the day.  Longitudes are in hundredths of a  *)
(* degree and offsetMinutes in hundredths of a minute.                     *)
(***************************************************************************)
MinutesPerDay == 1440
CivilTimes == [month : Months, minute : {690}]
SolarLongitudes == {-18000, -7400, 0, 750, 1500, 16500, 18000}

\* -date.getTimezoneOffset() for a date in month
offsetAt(zone, month) ==
  zone.standard + (IF month \in zone.dst THEN zone.shift ELSE 0)

Min(a, b) == IF a <= b THEN a ELSE b

\* new Date(civilTime.getTime() + solarOffsetMinutes * 60 * 1000), read in local time
addMinutes(civilTime, hundredths) ==
  [month |-> civilTime.month,
   minute |-> ((civilTime.minute * 100 + hundredths) \div 100) % MinutesPerDay]

calculateTrueSolarTime_currentOffset(zone, civilTime, longitude) ==
  LET currentOffsetMinutes == offsetAt(zone, civilTime.month)
      timezoneCentralLongitude == ((currentOffsetMinutes * 100) \div 60) * 15
      solarOffsetMinutes == (longitude - timezoneCentralLongitude) * 4
  IN [solarTime |-> addMinutes(civilTime, solarOffsetMinutes),
      offsetMinutes |-> solarOffsetMinutes]

calculateTrueSolarTime_clamped(zone, civilTime, longitude) ==
  LET standardOffsetMinutes == Min(offsetAt(zone, 1), offsetAt(zone, 7))
      timezoneCentralLongitude == ((standardOffsetMinutes * 100) \div 60) * 15
      raw == (longitude - timezoneCentralLongitude) * 4
      solarOffsetMinutes == IF raw > 72000 THEN 72000
                            ELSE IF raw < -72000 THEN -72000 ELSE raw
  IN [solarTime |-> addMinutes(civilTime, solarOffsetMinutes),
      offsetMinutes |-> solarOffsetMinutes]

calculateTrueSolarTime(zone, civilTime, longitude) ==
  LET winterOffsetMinutes == offsetAt(zone, 1)       \* January 2
      summerOffsetMinutes == offsetAt(zone, 7)       \* July 2
      standardOffsetMinutes == Min(winterOffsetMinutes, summerOffsetMinutes)
      timezoneCentralLongitude == ((standardOffsetMinutes * 100) \div 60) * 15
      longitudeOffset == longitude - timezoneCentralLongitude
      solarOffsetMinutes == longitudeOffset * 4
  IN [solarTime |-> addMinutes(civilTime, solarOffsetMinutes),
      offsetMinutes |-> solarOffsetMinutes]

(***************************************************************************)
(* getShichenFromSolarTime.  A solar time is [hours, minutes], what        *)
(* getHours() and getMinutes() return for it; progress is kept as its      *)
(* numerator over ShichenMinutes.                                          *)
(***************************************************************************)
ShichenMinutes == 120
EARTHLY_BRANCHES ==
  <<"zi", "chou", "yin", "mao", "chen", "si", "wu", "wei", "shen", "you", "xu", "hai">>
SOVEREIGN_HEXAGRAMS == <<24, 19, 11, 34, 43, 1, 44, 33, 12, 20, 23, 2>>
SolarTimes == [hours : 0..23, minutes : 0..59]

\* the data package's record, sequence and iteration order
sovereignHexagrams ==
  [zi   |-> [hexagramNumber |-> 24, yangLines |-> 1, phase |-> "waxing"],
   chou |-> [hexagramNumber |-> 19, yangLines |-> 2, phase |-> "waxing"],
   yin  |-> [hexagramNumber |-> 11, yangLines |-> 3, phase |-> "waxing"],
   mao  |-> [hexagramNumber |-> 34, yangLines |-> 4, phase |-> "waxing"],
   chen |-> [hexagramNumber |-> 43, yangLines |-> 5, phase |-> "waxing"],
   si   |-> [hexagramNumber |-> 1,  yangLines |-> 6, phase |-> "waxing"],
   wu   |-> [hexagramNumber |-> 44, yangLines |-> 5, phase |-> "waning"],
   wei  |-> [hexagramNumber |-> 33, yangLines |-> 4, phase |-> "waning"],
   shen |-> [hexagramNumber |-> 12, yangLines |-> 3, phase |-> "waning"],
   you  |-> [hexagramNumber |-> 20, yangLines |-> 2, phase |-> "waning"],
   xu   |-> [hexagramNumber |-> 23, yangLines |-> 1, phase |-> "waning"],
   hai  |-> [hexagramNumber |-> 2,  yangLines |-> 0, phase |-> "waning"]]
getSovereignHexagram(branch) == sovereignHexagrams[branch]
sovereignSequence == <<24, 19, 11, 34, 43, 1, 44, 33, 12, 20, 23, 2>>
branchOrder ==
  <<"zi", "chou", "yin", "mao", "chen", "si", "wu", "wei", "shen", "you", "xu", "hai">>

getShichenFromSolarTime_noShift(solarTime) ==
  LET adjustedMinutes == (solarTime.hours * 60 + solarTime.minutes) % MinutesPerDay
      shichenIndex == adjustedMinutes \div ShichenMinutes
  IN [index |-> shichenIndex,
      branch |-> EARTHLY_BRANCHES[shichenIndex + 1],
      hexagramNumber |-> SOVEREIGN_HEXAGRAMS[shichenIndex + 1],
      progress |-> adjustedMinutes % ShichenMinutes,
      minutesToNext |-> ShichenMinutes - (adjustedMinutes % ShichenMinutes)]

getShichenFromSolarTime_lateStart(solarTime) ==
  LET totalMinutes == solarTime.hours * 60 + solarTime.minutes
      adjustedMinutes == (totalMinutes + 59) % MinutesPerDay
      shichenIndex == adjustedMinutes \div ShichenMinutes
  IN [index |-> shichenIndex,
      branch |-> EARTHLY_BRANCHES[shichenIndex + 1],
      hexagramNumber |-> SOVEREIGN_HEXAGRAMS[shichenIndex + 1],
      progress |-> adjustedMinutes % ShichenMinutes,
      minutesToNext |-> ShichenMinutes - (adjustedMinutes % ShichenMinutes)]

getShichenFromSolarTime_nextHexagram(solarTime) ==
  LET totalMinutes == solarTime.hours * 60 + solarTime.minutes
      adjustedMinutes == (totalMinutes + 60) % MinutesPerDay
      shichenIndex == adjustedMinutes \div ShichenMinutes
  IN [index |-> shichenIndex,
      branch |-> EARTHLY_BRANCHES[shichenIndex + 1],
      hexagramNumber |-> SOVEREIGN_HEXAGRAMS[((shichenIndex + 1) % 12) + 1],
      progress |-> adjustedMinutes % ShichenMinutes,
      minutesToNext |-> ShichenMinutes - (adjustedMinutes % ShichenMinutes)]

getShichenFromSolarTime_remainderToNext(solarTime) ==
  LET totalMinutes == solarTime.hours * 60 + solarTime.minutes
      adjustedMinutes == (totalMinutes + 60) % MinutesPerDay
      shichenIndex == adjustedMinutes \div ShichenMinutes
  IN [index |-> shichenIndex,
      branch |-> EARTHLY_BRANCHES[shichenIndex + 1],
      hexagramNumber |-> SOVEREIGN_HEXAGRAMS[shichenIndex + 1],
      progress |-> adjustedMinutes % ShichenMinutes,
      minutesToNext |-> (ShichenMinutes - (adjustedMinutes % ShichenMinutes)) % ShichenMinutes]

getShichenFromSolarTime(solarTime) ==
  LET totalMinutes == solarTime.hours * 60 + solarTime.minutes
      adjustedMinutes == (totalMinutes + 60) % MinutesPerDay
      shichenIndex == adjustedMinutes \div ShichenMinutes
  IN [index |-> shichenIndex,
      branch |-> EARTHLY_BRANCHES[shichenIndex + 1],
      hexagramNumber |-> SOVEREIGN_HEXAGRAMS[shichenIndex + 1],
      progress |-> adjustedMinutes % ShichenMinutes,
      minutesToNext |-> ShichenMinutes - (adjustedMinutes % ShichenMinutes)]

(***************************************************************************)
(* SolarTimeProvider: construction.                                        *)
(***************************************************************************)
\* geoLocator.currentPosition: null, or a position with its precision
NoCachedPosition == [longitude |-> 0, precision |-> "none"]
ProviderPositions ==
  {[longitude |-> 0, precision |-> "high"], [longitude |-> 120, precision |-> "medium"]}
NoSolarTimeData == [type |-> "none"]

\* new Date(): the clock readings are a month and a minute apart, so that DST
\* starts or ends between two of them in the zones that have it
dateAt(now) == [month |-> 3 + now, minute |-> 690 + now]

getCurrentSolarTimeData_noFallback(position, civilTime) ==
  LET date == dateAt(civilTime)
      solar == calculateTrueSolarTime(sol_zone, date, position.longitude)
      solarTime == [hours |-> solar.solarTime.minute \div 60,
                    minutes |-> solar.solarTime.minute % 60]
      shichen == getShichenFromSolarTime(solarTime)
  IN [type |-> "solar-time",
      civilTime |-> civilTime,
      solarTime |-> solarTime,
      solarOffsetMinutes |-> solar.offsetMinutes,
      precision |-> position.precision,
      shichen |-> shichen,
      longitude |-> position.longitude,
      hour |-> date.minute \div 60,
      minute |-> date.minute % 60,
      solarHour |-> solarTime.hours,
      solarMinute |-> solarTime.minutes,
      earthlyBranch |-> shichen.branch,
      earthlyBranchIndex |-> shichen.index,
      branchProgress |-> shichen.progress]

getCurrentSolarTimeData(position, civilTime) ==
  LET date == dateAt(civilTime)
      fallback == [longitude |-> ((offsetAt(sol_zone, date.month) * 100) \div 60) * 15,
                   precision |-> "low"]
      pos == IF position = NoCachedPosition THEN fallback ELSE position
      solar == calculateTrueSolarTime(sol_zone, date, pos.longitude)
      solarTime == [hours |-> solar.solarTime.minute \div 60,
                    minutes |-> solar.solarTime.minute % 60]
      shichen == getShichenFromSolarTime(solarTime)
  IN [type |-> "solar-time",
      civilTime |-> civilTime,
      solarTime |-> solarTime,
      solarOffsetMinutes |-> solar.offsetMinutes,
      precision |-> pos.precision,
      shichen |-> shichen,
      longitude |-> pos.longitude,
      hour |-> date.minute \div 60,
      minute |-> date.minute % 60,
      solarHour |-> solarTime.hours,
      solarMinute |-> solarTime.minutes,
      earthlyBranch |-> shichen.branch,
      earthlyBranchIndex |-> shichen.index,
      branchProgress |-> shichen.progress]

\* createSolarTimeProvider: currentData is computed during construction, at time 0
ProviderInit(positions) ==
  /\ p_listeners = <<>>
  /\ p_closures = {}
  /\ p_timeTimeoutId = FALSE
  /\ p_timers = 0
  /\ p_geoUnsubscribe = FALSE
  /\ p_geoSubs = 0
  /\ p_now = 0
  /\ g_currentPosition \in positions
  /\ p_currentData = getCurrentSolarTimeData(g_currentPosition, 0)
  /\ p_received = [cb \in Callbacks |-> 0]
  /\ p_log = <<>>
  /\ p_computed = 0
  /\ p_out = NoSolarTimeData

\* a composite over no locators, for the specifications of the other components
NoLocators ==
  /\ locators = <<>>
  /\ locStatus = <<>>
  /\ locSubs = <<>>
  /\ permCalls = <<>>

CompositeInit ==
  /\ c_listeners = <<>>
  /\ c_unsubscribers = {}
  /\ c_currentPosition = NoPosition
  /\ c_currentBestLocatorId = NoId
  /\ c_reevaluationInterval = FALSE
  /\ c_timers = 0
  /\ c_closures = {}
  /\ c_switched = NoSwitch

\* every: every status a locator can report, or only those of LocatorStatuses
LocatorsInit(maxN, every) ==
  /\ \E n \in 1..maxN : locators \in LocatorConfigs(n)
  /\ locStatus \in [1..Len(locators) -> StatusesOf("high") \cup StatusesOf("medium")]
  /\ \A i \in 1..Len(locators) : locStatus[i] \in IF every THEN StatusesOf(locators[i].maxPrecision)
                                      ELSE LocatorStatuses(locators[i].maxPrecision)
  /\ locSubs = [i \in 1..Len(locators) |-> 0]
  /\ permCalls = [i \in 1..Len(locators) |-> 0]

(***************************************************************************)
(* SpecSelect: the two queries applied to every configuration of up to     *)
(* MaxSelectLocators locators and every combination of their statuses.     *)
(***************************************************************************)
(***************************************************************************)
(* HoursView: the branch shown for a viewing offset.                       *)
(***************************************************************************)
BRANCH_ORDER ==
  <<"zi", "chou", "yin", "mao", "chen", "si", "wu", "wei", "shen", "you", "xu", "hai">>

\* Array.prototype.indexOf, indexes from 0
indexOf(array, x) ==
  IF \E k \in DOMAIN array : array[k] = x
  THEN (CHOOSE k \in DOMAIN array : array[k] = x /\ \A j \in 1..(k - 1) : array[j] # x) - 1
  ELSE -1

\* a % n of the language: the result has the sign of a
remainder(a, n) == IF a >= 0 THEN a % n ELSE -((-a) % n)

\* array[i] of the language: undefined outside the array
elementAt(array, i) ==
  IF i >= 0 /\ i < Len(array) THEN array[i + 1] ELSE "undefined"

getOffsetBranch(currentBranch, offset) ==
  LET currentIndex == indexOf(BRANCH_ORDER, currentBranch)
      targetIndex == remainder(currentIndex + offset + 12, 12)
  IN elementAt(BRANCH_ORDER, targetIndex)

\* getHourData of HoursView, without the progress bar's value
getHourData(currentBranch, offset) ==
  [branch |-> getOffsetBranch(currentBranch, offset), isCurrentHour |-> offset = 0]

\* the props HoursView passes to TemporalNavigator
hoursProps(currentBranch, viewingOffset) ==
  [current |-> getHourData(currentBranch, viewingOffset),
   previous |-> getHourData(currentBranch, viewingOffset - 1),
   next |-> getHourData(currentBranch, viewingOffset + 1)]

(***************************************************************************)
(* provider-time: the branch of a civil hour.  branchProgress is kept as   *)
(* its numerator over 120.                                                 *)
(***************************************************************************)
EARTHLY_BRANCHES_time ==
  <<"zi", "chou", "yin", "mao", "chen", "si", "wu", "wei", "shen", "you", "xu", "hai">>

getEarthlyBranchIndex_fromMidnight(hour) == hour \div 2

getEarthlyBranchIndex(hour) ==
  LET adjustedHour == (hour + 1) % 24
  IN adjustedHour \div 2

getBranchProgress(hour, minute) ==
  LET adjustedHour == (hour + 1) % 24
      hourInBranch == adjustedHour % 2
  IN hourInBranch * 60 + minute

\* now: what getHours() and getMinutes() return for new Date()
getCurrentTimeData(now) ==
  LET hour == now.hours
      minute == now.minutes
      branchIndex == getEarthlyBranchIndex(hour)
  IN [hour |-> hour,
      minute |-> minute,
      earthlyBranch |-> elementAt(EARTHLY_BRANCHES_time, branchIndex),
      earthlyBranchIndex |-> branchIndex,
      branchProgress |-> getBranchProgress(hour, minute)]

\* HoursView as mounted, and createTimeProvider: currentData is computed
\* during construction
ViewInit(branches, times) ==
  /\ hv_currentBranch \in branches
  /\ hv_viewingOffset = 0
  /\ hv_hourData = hoursProps(hv_currentBranch, 0)
  /\ pt_time \in times
  /\ pt_timeData = getCurrentTimeData(pt_time)

\* TemporalNavigator as mounted: fadeAnim is 1, isTransitioning is false
NavInit(indexes) ==
  /\ nav_isTransitioning = FALSE
  /\ nav_opacity = 100
  /\ nav_animation = "none"
  /\ nav_direction = "none"
  /\ nav_index \in indexes
  /\ nav_accepted = 0
  /\ nav_called = 0
  /\ nav_log = <<>>

QueryInit ==
  /\ selected = NoId
  /\ statusResult = NoStatus

InitSelect ==
  /\ lastOp = "init"
  /\ LocatorsInit(MaxSelectLocators, TRUE)
  /\ CompositeInit
  /\ TzInit({0})
  /\ GpsInit
  /\ CalcInit({[standard |-> 0, shift |-> 0, dst |-> {}]})
  /\ ProviderInit({NoCachedPosition})
  /\ NavInit({1})
  /\ ViewInit({"zi"}, {[hours |-> 0, minutes |-> 0]})
  /\ QueryInit

QueryBestLocator ==
  /\ lastOp' = "getBestLocator"
  /\ selected' = getBestLocator(locStatus).id
  /\ statusResult' = NoStatus
  /\ UNCHANGED <<locVars, compVars, othersOfSelect>>

QueryStatus ==
  /\ lastOp' = "getStatus"
  /\ statusResult' = getStatus
  /\ selected' = NoId
  /\ UNCHANGED <<locVars, compVars, othersOfSelect>>

NextSelect == QueryBestLocator \/ QueryStatus

SpecSelect == InitSelect /\ [][NextSelect]_vars

(***************************************************************************)
(* The selection rule, stated on the set of locators.                      *)
(***************************************************************************)
Rank(i) == precisionOrder[locators[i].maxPrecision]
Granted == {i \in Ids : locStatus[i].permissionState = "granted" /\ locStatus[i].isAvailable}
\* i has the highest maxPrecision among the granted and available locators,
\* or none is granted and available and i has the lowest maxPrecision of all
IsBestChoice(i) ==
  IF Granted # {}
  THEN i \in Granted /\ \A j \in Granted : Rank(j) <= Rank(i)
  ELSE i \in Ids /\ \A j \in Ids : Rank(i) <= Rank(j)
IsHighestPrecision(i) == i \in Ids /\ \A j \in Ids : Rank(j) <= Rank(i)

\* C1: getBestLocator returns the locator with the highest maxPrecision among
\* those granted and available, and the one with the lowest maxPrecision when
\* no locator is granted and available.
C1_BestLocatorSelection ==
  lastOp = "getBestLocator" => IsBestChoice(selected)

\* C1 witness: three locators of three tiers, only the low one granted; the
\* low one is selected although two locators of higher precision exist.
C1_Witness ==
  /\ lastOp = "getBestLocator"
  /\ Len(locators) = 3
  /\ {locators[i].maxPrecision : i \in Ids} = Precisions
  /\ Cardinality(Granted) = 1
  /\ selected \in Granted
  /\ locators[selected].maxPrecision = "low"

\* C4: getStatus of the composite reports permissionState and isAvailable of a
\* locator with the highest maxPrecision and currentPrecision of the currently
\* best locator.
C4_StatusSources ==
  lastOp = "getStatus" =>
    \E h \in Ids, b \in Ids :
      /\ IsHighestPrecision(h)
      /\ IsBestChoice(b)
      /\ statusResult.permissionState = locStatus[h].permissionState
      /\ statusResult.isAvailable = locStatus[h].isAvailable
      /\ statusResult.currentPrecision = locStatus[b].currentPrecision

\* C4 witness: the highest-precision locator is denied and unavailable while a
\* medium locator is active: the status says denied, unavailable, medium.
C4_Witness ==
  /\ lastOp = "getStatus"
  /\ statusResult = [permissionState |-> "denied", isAvailable |-> FALSE,
                     currentPrecision |-> "medium"]
  /\ \E h \in Ids : locators[h].maxPrecision = "high"


(***************************************************************************)
(* CompositeGeoLocator: the helpers that change its state.  They work on a *)
(* record of the values they read and write,                               *)
(*   [unsubscribers, locSubs, position, best, interval, timers]            *)
(* so that a handler is the composition of the calls it makes.             *)
(***************************************************************************)
CompositeState ==
  [unsubscribers |-> c_unsubscribers, locSubs |-> locSubs,
   position |-> c_currentPosition, best |-> c_currentBestLocatorId,
   interval |-> c_reevaluationInterval, timers |-> c_timers]

\* imm: the locator has a position cached and delivers it inside subscribe()
subscribeToLocator(st, status, id, imm) ==
  IF id \in st.unsubscribers THEN st
  ELSE [st EXCEPT !.unsubscribers = @ \cup {id},
                  !.locSubs[id] = @ + 1,
                  !.position = IF imm THEN PositionOf(status, id) ELSE @]

unsubscribeFromLocator(st, id) ==
  IF id \in st.unsubscribers
  THEN [st EXCEPT !.unsubscribers = @ \ {id}, !.locSubs[id] = @ - 1]
  ELSE st

\* for (const locator of locators) if (locator.id !== keep) unsubscribeFromLocator
RECURSIVE unsubscribeAllExcept(_, _, _)
unsubscribeAllExcept(st, keep, k) ==
  IF k > Len(locators) THEN st
  ELSE unsubscribeAllExcept(
         IF locators[k].id # keep THEN unsubscribeFromLocator(st, locators[k].id) ELSE st,
         keep, k + 1)

\* mutant: the previously active locator is not unsubscribed from
updateSubscriptions_keepsOld(st, status, imm) ==
  LET bestLocator == getBestLocator(status) IN
  IF st.best # bestLocator.id
  THEN [subscribeToLocator(st, status, bestLocator.id, imm) EXCEPT !.best = bestLocator.id]
  ELSE st

\* mutant: the selection is made once and never revised
updateSubscriptions_once(st, status, imm) ==
  LET bestLocator == getBestLocator(status) IN
  IF st.best = NoId
  THEN [subscribeToLocator(unsubscribeAllExcept(st, bestLocator.id, 1),
                           status, bestLocator.id, imm)
          EXCEPT !.best = bestLocator.id]
  ELSE st

updateSubscriptions(st, status, imm) ==
  LET bestLocator == getBestLocator(status) IN
  IF st.best # bestLocator.id
  THEN [subscribeToLocator(unsubscribeAllExcept(st, bestLocator.id, 1),
                           status, bestLocator.id, imm)
          EXCEPT !.best = bestLocator.id]
  ELSE st

\* mutant: no guard against a second timer
startReevaluationInterval_noGuard(st) ==
  [st EXCEPT !.interval = TRUE, !.timers = @ + 1]

startReevaluationInterval(st) ==
  IF st.interval THEN st
  ELSE [st EXCEPT !.interval = TRUE, !.timers = @ + 1]

stopReevaluationInterval(st) ==
  IF st.interval THEN [st EXCEPT !.interval = FALSE, !.timers = @ - 1]
  ELSE st

\* the closure subscribe() returns, after listeners.delete(callback)
unsubscribeTeardown(st, size) ==
  IF size = 0
  THEN [stopReevaluationInterval(unsubscribeAllExcept(st, NoId, 1)) EXCEPT !.best = NoId]
  ELSE st

\* for (const locator of locators) { unsubscribeFromLocator; locator.dispose() }
\* dispose() of a locator clears its listener set
RECURSIVE disposeLocators(_, _)
disposeLocators(st, k) ==
  IF k > Len(locators) THEN st
  ELSE disposeLocators(
         [unsubscribeFromLocator(st, locators[k].id) EXCEPT !.locSubs[locators[k].id] = 0],
         k + 1)

Becomes(st) ==
  /\ c_unsubscribers' = st.unsubscribers
  /\ locSubs' = st.locSubs
  /\ c_currentPosition' = st.position
  /\ c_currentBestLocatorId' = st.best
  /\ c_reevaluationInterval' = st.interval
  /\ c_timers' = st.timers
  /\ c_switched' = IF c_currentBestLocatorId # NoId /\ st.best # NoId
                      /\ st.best # c_currentBestLocatorId
                   THEN <<c_currentBestLocatorId, st.best>> ELSE NoSwitch

(***************************************************************************)
(* CompositeGeoLocator: the handlers.                                      *)
(***************************************************************************)
Subscribe(cb, imm) ==
  /\ lastOp' = "subscribe"
  /\ c_listeners' = SetAdd(c_listeners, cb)
  /\ Becomes(IF Len(c_listeners') = 1
             THEN startReevaluationInterval(
                    updateSubscriptions(CompositeState, locStatus, imm))
             ELSE CompositeState)
  /\ c_closures' = c_closures \cup {cb}
  /\ UNCHANGED <<locators, locStatus, permCalls, queryVars, othersOfComposite>>

\* a call, the first or a later one, of a closure subscribe(cb) returned
Unsubscribe(cb) ==
  /\ cb \in c_closures
  /\ lastOp' = "unsubscribe"
  /\ c_listeners' = SetDelete(c_listeners, cb)
  /\ Becomes(unsubscribeTeardown(CompositeState, Len(c_listeners')))
  /\ UNCHANGED <<c_closures, locators, locStatus, permCalls, queryVars, othersOfComposite>>

\* the setInterval callback of startReevaluationInterval
ReevaluationTick(imm) ==
  /\ c_timers > 0
  /\ lastOp' = "tick"
  /\ Becomes(IF Len(c_listeners) > 0
             THEN updateSubscriptions(CompositeState, locStatus, imm)
             ELSE CompositeState)
  /\ UNCHANGED <<c_listeners, c_closures, locators, locStatus, permCalls, queryVars, othersOfComposite>>

\* requestPermission() up to its await
RequestPermission ==
  /\ \A i \in Ids : permCalls[i] < MaxPermCalls
  /\ lastOp' = "requestPermission"
  /\ permCalls' = [permCalls EXCEPT ![getHighestPrecisionLocator.id] = @ + 1]
  /\ c_switched' = NoSwitch
  /\ UNCHANGED <<c_listeners, c_unsubscribers, c_currentPosition,
                 c_currentBestLocatorId, c_reevaluationInterval, c_timers,
                 c_closures, locators, locStatus, locSubs, queryVars, othersOfComposite>>

\* locator i answers a requestPermission() (its status is s from then on) and
\* the composite's requestPermission() continues after its await
PermissionResolved(i, s, imm) ==
  /\ permCalls[i] > 0
  /\ lastOp' = "permissionResolved"
  /\ permCalls' = [permCalls EXCEPT ![i] = @ - 1]
  /\ locStatus' = [locStatus EXCEPT ![i] = s]
  /\ Becomes(IF Len(c_listeners) > 0
             THEN updateSubscriptions(CompositeState, locStatus', imm)
             ELSE CompositeState)
  /\ UNCHANGED <<c_listeners, c_closures, locators, queryVars, othersOfComposite>>

\* the status of an underlying locator changes (permission dialog answered,
\* permission revoked in the settings, hardware switched off, position lost)
StatusChange(i, s) ==
  /\ locStatus[i] # s
  /\ lastOp' = "statusChange"
  /\ locStatus' = [locStatus EXCEPT ![i] = s]
  /\ c_switched' = NoSwitch
  /\ UNCHANGED <<c_listeners, c_unsubscribers, c_currentPosition,
                 c_currentBestLocatorId, c_reevaluationInterval, c_timers,
                 c_closures, locators, locSubs, permCalls, queryVars, othersOfComposite>>

\* locator i pushes a position to the callback subscribeToLocator registered
LocatorPosition(i) ==
  /\ locSubs[i] > 0
  /\ lastOp' = "position"
  /\ c_currentPosition' = PositionOf(locStatus, i)
  /\ c_switched' = NoSwitch
  /\ UNCHANGED <<c_listeners, c_unsubscribers, c_currentBestLocatorId,
                 c_reevaluationInterval, c_timers, c_closures, locVars, queryVars, othersOfComposite>>

Dispose ==
  /\ lastOp' = "dispose"
  /\ c_listeners' = <<>>
  /\ Becomes(disposeLocators(
               [stopReevaluationInterval(CompositeState) EXCEPT !.best = NoId], 1))
  /\ UNCHANGED <<c_closures, locators, locStatus, permCalls, queryVars, othersOfComposite>>

InitComposite ==
  /\ lastOp = "init"
  /\ LocatorsInit(MaxLocators, FALSE)
  /\ CompositeInit
  /\ TzInit({0})
  /\ GpsInit
  /\ CalcInit({[standard |-> 0, shift |-> 0, dst |-> {}]})
  /\ ProviderInit({NoCachedPosition})
  /\ NavInit({1})
  /\ ViewInit({"zi"}, {[hours |-> 0, minutes |-> 0]})
  /\ QueryInit

NextComposite ==
  \/ \E cb \in Callbacks, imm \in BOOLEAN : Subscribe(cb, imm)
  \/ \E cb \in Callbacks : Unsubscribe(cb)
  \/ \E imm \in BOOLEAN : ReevaluationTick(imm)
  \/ RequestPermission
  \/ \E i \in Ids, imm \in BOOLEAN :
       \E s \in LocatorStatuses(locators[i].maxPrecision) : PermissionResolved(i, s, imm)
  \/ \E i \in Ids : \E s \in LocatorStatuses(locators[i].maxPrecision) : StatusChange(i, s)
  \/ \E i \in Ids : LocatorPosition(i)
  \/ Dispose

SpecComposite == InitComposite /\ [][NextComposite]_vars

Subscribed == {i \in Ids : locSubs[i] > 0}

C3_SwitchWithinOneTick ==
  (lastOp = "tick" /\ Len(c_listeners) > 0) =>
    \E b \in Ids : IsBestChoice(b) /\ Subscribed = {b} /\ c_unsubscribers = {b}

\* C3 witness: a tick moved the subscription from a lower-precision locator to
\* a higher-precision one that is granted and available.
C3_Witness ==
  /\ lastOp = "tick"
  /\ Len(c_listeners) > 0
  /\ c_switched # NoSwitch
  /\ Rank(c_switched[1]) < Rank(c_switched[2])
  /\ c_switched[2] \in Granted
  /\ Subscribed = {c_switched[2]}

\* C5, as stated: once the underlying requestPermission resolves, selection is
\* re-run in every state, so the current best locator is the best choice.
C5_ReselectsInEveryState ==
  lastOp = "permissionResolved" => IsBestChoice(c_currentBestLocatorId)

\* C5, amended: requestPermission calls requestPermission of exactly one
\* locator, one with the highest maxPrecision; when that call resolves,
\* selection is re-run if the composite has at least one subscriber, and
\* nothing is subscribed or selected if it has none.
C5_DelegatesThenReselects ==
  [][/\ lastOp' = "requestPermission" =>
          \E h \in Ids : /\ IsHighestPrecision(h)
                          /\ permCalls' = [permCalls EXCEPT ![h] = @ + 1]
     /\ (lastOp' = "permissionResolved" /\ Len(c_listeners) > 0) =>
          \E b \in Ids : /\ IsBestChoice(b)'
                          /\ c_currentBestLocatorId' = b
                          /\ Subscribed' = {b}
     /\ (lastOp' = "permissionResolved" /\ Len(c_listeners) = 0) =>
          /\ c_currentBestLocatorId' = NoId
          /\ Subscribed' = {}
          /\ locSubs' = locSubs]_vars

\* C5 witness: the answer to a permission request made the composite move
\* its subscription to the locator of the highest precision.
C5_Witness ==
  /\ lastOp = "permissionResolved"
  /\ Len(c_listeners) > 0
  /\ c_switched # NoSwitch
  /\ IsHighestPrecision(c_switched[2])
  /\ ~IsHighestPrecision(c_switched[1])

getTimezoneBasedLongitude_sameSign(timezoneOffset) ==
  ((timezoneOffset * 100) \div 60) * 15

\* the longitude in hundredths of a degree
getTimezoneBasedLongitude(timezoneOffset) ==
  LET offsetMinutes == -timezoneOffset
  IN ((offsetMinutes * 100) \div 60) * 15

\* the local getCurrentPosition of createTimezoneGeoLocator
tzCurrentPosition(timezoneOffset) ==
  [longitude |-> getTimezoneBasedLongitude(timezoneOffset), latitude |-> 0,
   precision |-> "low"]

\* the status getStatus() returns and onStatusChange delivers
tzStatus ==
  [permissionState |-> "granted", isAvailable |-> TRUE, currentPrecision |-> "low"]

\* listeners.forEach(cb => cb(position))
tzDeliverAll(listeners, position) ==
  [k \in 1..Len(listeners) |-> [cb |-> listeners[k], position |-> position]]

\* subscribe(callback): the position is delivered at once; the first member
\* of the listener set starts the 60 s timer
TzSubscribe(cb) ==
  /\ tz_handles[cb].live < MaxHandles
  /\ tz_timers < MaxTzTimers
  /\ lastOp' = "subscribe"
  /\ tz_listeners' = SetAdd(tz_listeners, cb)
  /\ IF Len(tz_listeners') = 1
     THEN tz_intervalId' = TRUE /\ tz_timers' = tz_timers + 1
     ELSE UNCHANGED <<tz_intervalId, tz_timers>>
  /\ tz_handles' = HandOut(tz_handles, cb)
  /\ tz_out' = [TzNoOutput EXCEPT
                  !.delivered = <<[cb |-> cb, position |-> tzCurrentPosition(tz_offset)]>>]
  /\ UNCHANGED <<tz_offset, othersOfTz>>

\* the closure subscribe(cb) returned
TzUnsubscribeBody(cb) ==
  /\ tz_listeners' = SetDelete(tz_listeners, cb)
  /\ IF Len(tz_listeners') = 0 /\ tz_intervalId
     THEN tz_intervalId' = FALSE /\ tz_timers' = tz_timers - 1
     ELSE UNCHANGED <<tz_intervalId, tz_timers>>
  /\ tz_out' = TzNoOutput
  /\ UNCHANGED <<tz_offset, othersOfTz>>

\* the first call of a closure subscribe(cb) returned
TzUnsubscribe(cb) ==
  /\ tz_handles[cb].live > 0
  /\ lastOp' = "unsubscribe"
  /\ tz_handles' = FirstCall(tz_handles, cb)
  /\ TzUnsubscribeBody(cb)

\* a further call of a closure of cb that was called before
TzUnsubscribeAgain(cb) ==
  /\ tz_handles[cb].called
  /\ lastOp' = "unsubscribeAgain"
  /\ UNCHANGED tz_handles
  /\ TzUnsubscribeBody(cb)

\* a setInterval callback: the position is delivered to every listener
TzTimerFires ==
  /\ tz_timers > 0
  /\ lastOp' = "timer"
  /\ tz_out' = [TzNoOutput EXCEPT
                  !.delivered = tzDeliverAll(tz_listeners, tzCurrentPosition(tz_offset))]
  /\ UNCHANGED <<tz_listeners, tz_intervalId, tz_timers, tz_handles, tz_offset,
                 othersOfTz>>

TzGetStatus ==
  /\ lastOp' = "getStatus"
  /\ tz_out' = [TzNoOutput EXCEPT !.status = tzStatus]
  /\ UNCHANGED <<tz_listeners, tz_intervalId, tz_timers, tz_handles, tz_offset,
                 othersOfTz>>

\* onStatusChange(callback): the status is delivered once, nothing is registered
TzOnStatusChange ==
  /\ lastOp' = "onStatusChange"
  /\ tz_out' = [TzNoOutput EXCEPT !.status = tzStatus]
  /\ UNCHANGED <<tz_listeners, tz_intervalId, tz_timers, tz_handles, tz_offset,
                 othersOfTz>>

TzRequestPermission ==
  /\ lastOp' = "requestPermission"
  /\ tz_out' = [TzNoOutput EXCEPT !.permission = "granted"]
  /\ UNCHANGED <<tz_listeners, tz_intervalId, tz_timers, tz_handles, tz_offset,
                 othersOfTz>>

TzGetCurrentPosition ==
  /\ lastOp' = "getCurrentPosition"
  /\ tz_out' = [TzNoOutput EXCEPT !.position = tzCurrentPosition(tz_offset)]
  /\ UNCHANGED <<tz_listeners, tz_intervalId, tz_timers, tz_handles, tz_offset,
                 othersOfTz>>

\* the device moves to another timezone
TzTimezoneChanges(timezoneOffset) ==
  /\ timezoneOffset # tz_offset
  /\ lastOp' = "timezoneChange"
  /\ tz_offset' = timezoneOffset
  /\ tz_out' = TzNoOutput
  /\ UNCHANGED <<tz_listeners, tz_intervalId, tz_timers, tz_handles, othersOfTz>>

TzDispose ==
  /\ lastOp' = "dispose"
  /\ tz_listeners' = <<>>
  /\ IF tz_intervalId
     THEN tz_intervalId' = FALSE /\ tz_timers' = tz_timers - 1
     ELSE UNCHANGED <<tz_intervalId, tz_timers>>
  /\ tz_out' = TzNoOutput
  /\ UNCHANGED <<tz_handles, tz_offset, othersOfTz>>

InitTz ==
  /\ lastOp = "init"
  /\ NoLocators
  /\ CompositeInit
  /\ TzInit(TzOffsets)
  /\ GpsInit
  /\ CalcInit({[standard |-> 0, shift |-> 0, dst |-> {}]})
  /\ ProviderInit({NoCachedPosition})
  /\ NavInit({1})
  /\ ViewInit({"zi"}, {[hours |-> 0, minutes |-> 0]})
  /\ QueryInit

NextTz ==
  \/ \E cb \in Callbacks : TzSubscribe(cb)
  \/ \E cb \in Callbacks : TzUnsubscribe(cb)
  \/ \E cb \in Callbacks : TzUnsubscribeAgain(cb)
  \/ TzTimerFires
  \/ TzGetStatus
  \/ TzOnStatusChange
  \/ TzRequestPermission
  \/ TzGetCurrentPosition
  \/ \E timezoneOffset \in TzOffsets : TzTimezoneChanges(timezoneOffset)
  \/ TzDispose

SpecTz == InitTz /\ [][NextTz]_vars

\* C8: a second call of an unsubscribe function is a no-op: it changes neither
\* the listener set nor the timer.  (Stated for the timezone locator; the
\* closures of the GPS locator, the composite and the provider delete the
\* callback they captured in the same way.)
C8_SecondUnsubscribeIsNoOp ==
  [][lastOp' = "unsubscribeAgain" =>
       /\ tz_listeners' = tz_listeners
       /\ tz_intervalId' = tz_intervalId
       /\ tz_timers' = tz_timers]_vars


(***************************************************************************)
(* GpsGeoLocator.  The helpers work on a record of the closure variables,  *)
(*   [listeners, watchSubscription, watches, pendingWatch, position,       *)
(*    permission, lastEmitted]                                             *)
(* A position is [precision, fresh]; fresh says that its timestamp is less *)
(* than 120000 ms old.                                                     *)
(***************************************************************************)
GracePeriodMs == 120000
AccuracyThreshold == 100
Accuracies == {NoAccuracy, AccuracyThreshold - 1, AccuracyThreshold}
ExpoStatuses == {"granted", "denied", "undetermined", "restricted"}

precisionFromAccuracy_inclusive(accuracyMeters) ==
  IF accuracyMeters = NoAccuracy THEN "high"
  ELSE IF accuracyMeters <= AccuracyThreshold THEN "high" ELSE "medium"

precisionFromAccuracy(accuracyMeters) ==
  IF accuracyMeters = NoAccuracy THEN "high"
  ELSE IF accuracyMeters < AccuracyThreshold THEN "high" ELSE "medium"

\* the position the watch callback and getCurrentPosition build from a location
gpsPosition(accuracy) ==
  [precision |-> precisionFromAccuracy(accuracy), accuracyMeters |-> accuracy,
   fresh |-> TRUE]

mapExpoPermissionStatus(status) ==
  CASE status = "granted" -> "granted"
    [] status = "denied" -> "denied"
    [] status = "undetermined" -> "undetermined"
    [] OTHER -> "denied"

GpsState ==
  [listeners |-> gps_listeners, watchSubscription |-> gps_watchSubscription,
   watches |-> gps_watches, pendingWatch |-> gps_pendingWatch,
   position |-> gps_currentPosition, permission |-> gps_permissionState,
   lastEmitted |-> gps_lastEmittedStatus, statusListeners |-> gps_statusListeners,
   statusDelivered |-> gps_statusDelivered, statusLog |-> <<>>]

getStatusInternal(st) ==
  LET hasValidPosition ==
        st.position # NoGpsPosition /\ (st.watchSubscription \/ st.position.fresh)
  IN [permissionState |-> st.permission,
      isAvailable |-> TRUE,
      currentPrecision |-> IF hasValidPosition THEN st.position.precision ELSE "low"]

\* cb(status) for a status listener
callStatus(st, cb, status) ==
  [st EXCEPT !.statusLog = Append(@, [cb |-> cb, status |-> status]),
             !.statusDelivered[cb] = status]

\* statusListeners.forEach(cb => cb(status)) from entry k on
RECURSIVE forEachStatusListener(_, _, _)
forEachStatusListener(st, k, status) ==
  IF k > Len(st.statusListeners) THEN st
  ELSE forEachStatusListener(callStatus(st, st.statusListeners[k], status), k + 1, status)

emitStatusChange(st) ==
  IF st.lastEmitted # NoStatus /\ st.lastEmitted = getStatusInternal(st) THEN st
  ELSE forEachStatusListener([st EXCEPT !.lastEmitted = getStatusInternal(st)], 1,
                             getStatusInternal(st))

\* startWatching up to its await: watchPositionAsync is called
startWatching(st) ==
  IF st.watchSubscription \/ st.permission # "granted" THEN st
  ELSE [st EXCEPT !.pendingWatch = @ + 1]

stopWatching(st) ==
  IF st.watchSubscription
  THEN [st EXCEPT !.watchSubscription = FALSE, !.watches = @ - 1]
  ELSE st

\* the body refreshPermissionState and requestPermission share, after the await
permissionAnswered(st, newState) ==
  IF newState # st.permission
  THEN LET a == [st EXCEPT !.permission = newState]
           b == IF newState = "granted" /\ Len(st.listeners) > 0 THEN startWatching(a) ELSE a
           c == IF newState # "granted"
                THEN [stopWatching(b) EXCEPT !.position = NoGpsPosition] ELSE b
       IN emitStatusChange(c)
  ELSE st

watchCallback_alwaysEmits(st, accuracy) ==
  emitStatusChange([st EXCEPT !.position = gpsPosition(accuracy)])

\* the callback given to watchPositionAsync
watchCallback(st, accuracy) ==
  LET hadValidPosition == st.position # NoGpsPosition
      a == [st EXCEPT !.position = gpsPosition(accuracy)]
  IN IF ~hadValidPosition THEN emitStatusChange(a) ELSE a

GpsBecomes(st) ==
  /\ gps_listeners' = st.listeners
  /\ gps_watchSubscription' = st.watchSubscription
  /\ gps_watches' = st.watches
  /\ gps_pendingWatch' = st.pendingWatch
  /\ gps_currentPosition' = st.position
  /\ gps_permissionState' = st.permission
  /\ gps_lastEmittedStatus' = st.lastEmitted
  /\ gps_statusListeners' = st.statusListeners
  /\ gps_statusDelivered' = st.statusDelivered
  /\ gps_statusLog' = st.statusLog

(***************************************************************************)
(* GpsGeoLocator: the handlers.                                            *)
(***************************************************************************)
GpsSubscribe(cb) ==
  /\ gps_pendingWatch < MaxPendingWatch
  /\ lastOp' = "subscribe"
  /\ LET a == [GpsState EXCEPT !.listeners = SetAdd(@, cb)] IN
     GpsBecomes(IF Len(a.listeners) = 1 /\ a.permission = "granted"
                THEN startWatching(a) ELSE a)
  /\ gps_closures' = gps_closures \cup {cb}
  /\ UNCHANGED <<gps_queries, othersOfGps>>

\* a call, the first or a later one, of a closure subscribe(cb) returned
GpsUnsubscribe(cb) ==
  /\ cb \in gps_closures
  /\ lastOp' = "unsubscribe"
  /\ LET a == [GpsState EXCEPT !.listeners = SetDelete(@, cb)] IN
     GpsBecomes(IF Len(a.listeners) = 0 THEN stopWatching(a) ELSE a)
  /\ UNCHANGED <<gps_closures, gps_queries, othersOfGps>>

\* watchPositionAsync resolves: startWatching continues after its await
GpsWatchStarted ==
  /\ gps_pendingWatch > 0
  /\ gps_watches < MaxWatches
  /\ lastOp' = "watchStarted"
  /\ GpsBecomes([GpsState EXCEPT !.pendingWatch = @ - 1, !.watches = @ + 1,
                                 !.watchSubscription = TRUE])
  /\ UNCHANGED <<gps_closures, gps_queries, othersOfGps>>

watchFailed_givesUp(st) ==
  [st EXCEPT !.pendingWatch = @ - 1, !.listeners = <<>>, !.watchSubscription = TRUE]

\* the catch of startWatching: a warning is logged, nothing is assigned
watchFailed(st) ==
  [st EXCEPT !.pendingWatch = @ - 1]

\* watchPositionAsync rejects: the catch of startWatching
GpsWatchFailed ==
  /\ gps_pendingWatch > 0
  /\ lastOp' = "watchFailed"
  /\ GpsBecomes(watchFailed(GpsState))
  /\ UNCHANGED <<gps_closures, gps_queries, othersOfGps>>

\* the callback given to watchPositionAsync, called by a live watch
GpsWatchCallback(accuracy) ==
  /\ gps_watches > 0
  /\ lastOp' = "watchCallback"
  /\ GpsBecomes(watchCallback(GpsState, accuracy))
  /\ UNCHANGED <<gps_closures, gps_queries, othersOfGps>>

\* GracePeriodMs pass after the timestamp of the cached position
GpsPositionAges ==
  /\ gps_currentPosition # NoGpsPosition
  /\ gps_currentPosition.fresh
  /\ lastOp' = "time"
  /\ gps_currentPosition' = [gps_currentPosition EXCEPT !.fresh = FALSE]
  /\ gps_statusLog' = <<>>
  /\ UNCHANGED <<gps_listeners, gps_closures, gps_watchSubscription, gps_watches,
                 gps_pendingWatch, gps_permissionState, gps_lastEmittedStatus, gps_statusListeners,
                 gps_statusDelivered,
                 gps_queries, othersOfGps>>

\* a platform call of kind has resolved or rejected.  refreshBefore says that a
\* permission query was pending when requestPermission() was last called, and
\* overtaken that the request has been answered while that query is still
\* pending; both end with the query
querySettled(queries, kind) ==
  IF kind = "refresh"
  THEN [queries EXCEPT !.refresh = @ - 1,
                       !.refreshBefore = @ /\ queries.refresh > 1,
                       !.overtaken = @ /\ queries.refresh > 1]
  ELSE [queries EXCEPT ![kind] = @ - 1]

\* refreshStatus(): refreshPermissionState up to its await
GpsRefreshStatus ==
  /\ gps_queries.refresh < MaxQueries
  /\ lastOp' = "refreshStatus"
  /\ gps_queries' = [gps_queries EXCEPT !.refresh = @ + 1]
  /\ gps_statusLog' = <<>>
  /\ UNCHANGED <<gps_listeners, gps_closures, gps_watchSubscription, gps_watches,
                 gps_pendingWatch, gps_currentPosition, gps_permissionState,
                 gps_lastEmittedStatus, gps_statusListeners,
                 gps_statusDelivered, othersOfGps>>

\* getForegroundPermissionsAsync resolves with status
GpsRefreshResolved(status) ==
  /\ gps_queries.refresh > 0
  /\ gps_pendingWatch < MaxPendingWatch
  /\ lastOp' = "refreshResolved"
  /\ gps_queries' = querySettled(gps_queries, "refresh")
  /\ GpsBecomes(permissionAnswered(GpsState, mapExpoPermissionStatus(status)))
  /\ UNCHANGED <<gps_closures, othersOfGps>>

\* requestPermission() up to its await
GpsRequestPermission ==
  /\ gps_queries.request < MaxQueries
  /\ lastOp' = "requestPermission"
  /\ gps_queries' = [gps_queries EXCEPT !.request = @ + 1,
                                        !.refreshBefore = gps_queries.refresh > 0]
  /\ gps_statusLog' = <<>>
  /\ UNCHANGED <<gps_listeners, gps_closures, gps_watchSubscription, gps_watches,
                 gps_pendingWatch, gps_currentPosition, gps_permissionState,
                 gps_lastEmittedStatus, gps_statusListeners,
                 gps_statusDelivered, othersOfGps>>

\* requestForegroundPermissionsAsync resolves with status
GpsRequestResolved(status) ==
  /\ gps_queries.request > 0
  /\ gps_pendingWatch < MaxPendingWatch
  /\ lastOp' = "requestResolved"
  /\ gps_queries' = [gps_queries EXCEPT
                       !.request = @ - 1,
                       !.overtaken = @ \/ (gps_queries.refreshBefore /\ gps_queries.refresh > 0)]
  /\ GpsBecomes(permissionAnswered(GpsState, mapExpoPermissionStatus(status)))
  /\ UNCHANGED <<gps_closures, othersOfGps>>

getCurrentPosition_noGuard(permission, queries) ==
  [outcome |-> "called", queries |-> [queries EXCEPT !.position = @ + 1]]

\* getCurrentPosition() up to its await: it throws unless permission is granted,
\* and calls getCurrentPositionAsync otherwise
getCurrentPosition(permission, queries) ==
  IF permission # "granted"
  THEN [outcome |-> "rejected", queries |-> queries]
  ELSE [outcome |-> "called", queries |-> [queries EXCEPT !.position = @ + 1]]

GpsGetCurrentPosition ==
  /\ gps_permissionState = "granted" => gps_queries.position < MaxQueries
  /\ LET r == getCurrentPosition(gps_permissionState, gps_queries) IN
       /\ lastOp' = IF r.outcome = "rejected" THEN "getCurrentPositionRejected"
                                              ELSE "getCurrentPosition"
       /\ gps_queries' = r.queries
  /\ gps_statusLog' = <<>>
  /\ UNCHANGED <<gps_listeners, gps_closures, gps_watchSubscription, gps_watches,
                 gps_pendingWatch, gps_currentPosition, gps_permissionState,
                 gps_lastEmittedStatus, gps_statusListeners,
                 gps_statusDelivered, othersOfGps>>

\* getCurrentPositionAsync resolves: the position is cached, nobody is called
GpsPositionResolved(accuracy) ==
  /\ gps_queries.position > 0
  /\ lastOp' = "positionResolved"
  /\ gps_queries' = [gps_queries EXCEPT !.position = @ - 1]
  /\ gps_currentPosition' = gpsPosition(accuracy)
  /\ gps_statusLog' = <<>>
  /\ UNCHANGED <<gps_listeners, gps_closures, gps_watchSubscription, gps_watches,
                 gps_pendingWatch, gps_permissionState, gps_lastEmittedStatus, gps_statusListeners,
                 gps_statusDelivered,
                 othersOfGps>>

\* a platform call rejects: the catch logs a warning; lastOp is refreshFailed,
\* requestFailed or positionFailed
GpsQueryFailed(kind) ==
  /\ gps_queries[kind] > 0
  /\ lastOp' = kind \o "Failed"
  /\ gps_queries' = querySettled(gps_queries, kind)
  /\ gps_statusLog' = <<>>
  /\ UNCHANGED <<gps_listeners, gps_closures, gps_watchSubscription, gps_watches,
                 gps_pendingWatch, gps_currentPosition, gps_permissionState,
                 gps_lastEmittedStatus, gps_statusListeners,
                 gps_statusDelivered, othersOfGps>>

\* onStatusChange(cb): the current status is delivered at once
GpsOnStatusChange(cb) ==
  /\ lastOp' = "onStatusChange"
  /\ LET a == [GpsState EXCEPT !.statusListeners = SetAdd(@, cb)]
     IN GpsBecomes(callStatus(a, cb, getStatusInternal(a)))
  /\ UNCHANGED <<gps_closures, gps_queries, othersOfGps>>

\* a call of a closure onStatusChange(cb) returned
GpsStatusUnsubscribe(cb) ==
  /\ gps_statusDelivered[cb] # NoStatus
  /\ lastOp' = "statusUnsubscribe"
  /\ GpsBecomes([GpsState EXCEPT !.statusListeners = SetDelete(@, cb)])
  /\ UNCHANGED <<gps_closures, gps_queries, othersOfGps>>

GpsDispose ==
  /\ lastOp' = "dispose"
  /\ GpsBecomes(stopWatching([GpsState EXCEPT !.listeners = <<>>,
                                              !.statusListeners = <<>>]))
  /\ UNCHANGED <<gps_closures, gps_queries, othersOfGps>>

InitGps ==
  /\ lastOp = "init"
  /\ NoLocators
  /\ CompositeInit
  /\ TzInit({0})
  /\ GpsInit
  /\ CalcInit({[standard |-> 0, shift |-> 0, dst |-> {}]})
  /\ ProviderInit({NoCachedPosition})
  /\ NavInit({1})
  /\ ViewInit({"zi"}, {[hours |-> 0, minutes |-> 0]})
  /\ QueryInit

NextGps ==
  \/ \E cb \in Callbacks : GpsSubscribe(cb)
  \/ \E cb \in Callbacks : GpsUnsubscribe(cb)
  \/ GpsWatchStarted
  \/ GpsWatchFailed
  \/ \E accuracy \in Accuracies : GpsWatchCallback(accuracy)
  \/ GpsPositionAges
  \/ GpsRefreshStatus
  \/ \E status \in ExpoStatuses : GpsRefreshResolved(status)
  \/ GpsRequestPermission
  \/ \E status \in ExpoStatuses : GpsRequestResolved(status)
  \/ GpsGetCurrentPosition
  \/ \E accuracy \in Accuracies : GpsPositionResolved(accuracy)
  \/ \E kind \in {"refresh", "request", "position"} : GpsQueryFailed(kind)
  \/ GpsDispose

SpecGps == InitGps /\ [][NextGps]_vars

(***************************************************************************)
(* SpecGpsStatus: the GPS locator with a status listener.  One position    *)
(* listener subscribes and unsubscribes, the permission is read through    *)
(* refreshStatus(), and no platform call fails.                            *)
(***************************************************************************)
NextGpsStatus ==
  \/ GpsSubscribe("f")
  \/ GpsUnsubscribe("f")
  \/ GpsWatchStarted
  \/ \E accuracy \in Accuracies : GpsWatchCallback(accuracy)
  \/ GpsPositionAges
  \/ GpsRefreshStatus
  \/ \E status \in ExpoStatuses : GpsRefreshResolved(status)
  \/ GpsGetCurrentPosition
  \/ \E accuracy \in Accuracies : GpsPositionResolved(accuracy)
  \/ \E cb \in StatusCallbacks : GpsOnStatusChange(cb)
  \/ \E cb \in StatusCallbacks : GpsStatusUnsubscribe(cb)
  \/ GpsDispose

SpecGpsStatus == InitGps /\ [][NextGpsStatus]_vars


(***************************************************************************)
(* C7 (GPS locator part): the watch runs only while somebody listens.      *)
(* Refuted: when the last listener unsubscribes before watchPositionAsync  *)
(* resolves, stopWatching finds no handle and the watch that then starts   *)
(* stays live with no listener.                                            *)
(***************************************************************************)
C7_LastUnsubscribeStopsWatch ==
  Len(gps_listeners) = 0 => gps_watches = 0

(***************************************************************************)
(* SolarTimeProvider.  The helpers work on a record of the closure         *)
(* variables and of the bookkeeping of the current handler,                *)
(*   [listeners, timeTimeoutId, timers, geoUnsubscribe, geoSubs,           *)
(*    currentData, received, log, computed]                                *)
(* A listener callback may call its own unsubscribe closure while it is    *)
(* being called: leaving is the set of callbacks that do so.               *)
(***************************************************************************)
ProviderState ==
  [listeners |-> p_listeners, timeTimeoutId |-> p_timeTimeoutId, timers |-> p_timers,
   geoUnsubscribe |-> p_geoUnsubscribe, geoSubs |-> p_geoSubs,
   currentData |-> p_currentData, received |-> p_received,
   log |-> <<>>, computed |-> 0]

stopUpdates(st) ==
  LET a == IF st.geoUnsubscribe
           THEN [st EXCEPT !.geoUnsubscribe = FALSE, !.geoSubs = @ - 1] ELSE st
  IN IF a.timeTimeoutId
     THEN [a EXCEPT !.timeTimeoutId = FALSE, !.timers = @ - 1] ELSE a

\* the closure subscribe(cb) returns
providerUnsubscribe(st, cb) ==
  LET a == [st EXCEPT !.listeners = SetDelete(@, cb)]
  IN IF Len(a.listeners) = 0 THEN stopUpdates(a) ELSE a

\* cb(currentData)
call(st, cb) ==
  [st EXCEPT !.log = Append(@, [cb |-> cb, data |-> st.currentData]),
             !.received[cb] = st.currentData.civilTime]

\* listeners.forEach(cb => cb(currentData)) from entry k of the order the set had
RECURSIVE forEachListener(_, _, _, _)
forEachListener(st, order, k, leaving) ==
  IF k > Len(order) THEN st
  ELSE LET cb == order[k]
           a == IF cb \in Members(st.listeners) THEN call(st, cb) ELSE st
           b == IF cb \in Members(st.listeners) /\ cb \in leaving
                THEN providerUnsubscribe(a, cb) ELSE a
       IN forEachListener(b, order, k + 1, leaving)

Reverse(s) == [k \in 1..Len(s) |-> s[Len(s) + 1 - k]]

updateData_reverseOrder(st, position, now, leaving) ==
  LET a == [st EXCEPT !.currentData = getCurrentSolarTimeData(position, now),
                      !.computed = @ + 1]
  IN forEachListener(a, Reverse(a.listeners), 1, leaving)

updateData(st, position, now, leaving) ==
  LET a == [st EXCEPT !.currentData = getCurrentSolarTimeData(position, now),
                      !.computed = @ + 1]
  IN forEachListener(a, a.listeners, 1, leaving)

scheduleNextUpdate(st) ==
  IF st.timeTimeoutId THEN st
  ELSE [st EXCEPT !.timeTimeoutId = TRUE, !.timers = @ + 1]

\* immediate: geoLocator.subscribe calls the callback before it returns
startUpdates(st, position, now, immediate) ==
  IF st.timeTimeoutId \/ st.geoUnsubscribe THEN st
  ELSE LET a == [st EXCEPT !.geoSubs = @ + 1]
           b == IF immediate THEN updateData(a, position, now, {}) ELSE a
       IN scheduleNextUpdate([b EXCEPT !.geoUnsubscribe = TRUE])

ProviderBecomes(st) ==
  /\ p_listeners' = st.listeners
  /\ p_timeTimeoutId' = st.timeTimeoutId
  /\ p_timers' = st.timers
  /\ p_geoUnsubscribe' = st.geoUnsubscribe
  /\ p_geoSubs' = st.geoSubs
  /\ p_currentData' = st.currentData
  /\ p_received' = st.received
  /\ p_log' = st.log
  /\ p_computed' = st.computed
  /\ p_out' = NoSolarTimeData

(***************************************************************************)
(* SolarTimeProvider: the handlers.                                        *)
(***************************************************************************)
ProviderSubscribe(cb, immediate) ==
  /\ lastOp' = "subscribe"
  /\ LET a == [ProviderState EXCEPT !.listeners = SetAdd(@, cb)]
         b == IF Len(a.listeners) = 1
              THEN startUpdates(a, g_currentPosition, p_now, immediate) ELSE a
     IN ProviderBecomes(call(b, cb))
  /\ p_closures' = p_closures \cup {cb}
  /\ UNCHANGED <<p_now, g_currentPosition, othersOfProvider>>

\* a call, the first or a later one, of a closure subscribe(cb) returned
ProviderUnsubscribe(cb) ==
  /\ cb \in p_closures
  /\ lastOp' = "unsubscribe"
  /\ ProviderBecomes(providerUnsubscribe(ProviderState, cb))
  /\ UNCHANGED <<p_closures, p_now, g_currentPosition, othersOfProvider>>

\* the callback scheduleNextUpdate gave to setTimeout
ProviderTimerFires(leaving) ==
  /\ p_timers > 0
  /\ lastOp' = "timer"
  /\ LET a == [ProviderState EXCEPT !.timeTimeoutId = FALSE, !.timers = @ - 1]
     IN ProviderBecomes(scheduleNextUpdate(updateData(a, g_currentPosition, p_now, leaving)))
  /\ UNCHANGED <<p_closures, p_now, g_currentPosition, othersOfProvider>>

\* the geolocator has a new position and calls the callback startUpdates gave it
GeoLocatorPush(position, leaving) ==
  /\ p_geoSubs > 0
  /\ lastOp' = "geoPush"
  /\ g_currentPosition' = position
  /\ ProviderBecomes(updateData(ProviderState, position, p_now, leaving))
  /\ UNCHANGED <<p_closures, p_now, othersOfProvider>>

\* the geolocator's cached position changes and no subscriber is called: a
\* one-shot fetch stores a position, a revoked permission clears it
GeoLocatorChanges(position) ==
  /\ position # g_currentPosition
  /\ lastOp' = "geoChange"
  /\ g_currentPosition' = position
  /\ p_log' = <<>>
  /\ p_computed' = 0
  /\ p_out' = NoSolarTimeData
  /\ UNCHANGED <<p_listeners, p_closures, p_timeTimeoutId, p_timers, p_geoUnsubscribe,
                 p_geoSubs, p_currentData, p_now, p_received, othersOfProvider>>

ProviderGetCurrentData ==
  /\ lastOp' = "getCurrentData"
  /\ p_out' = p_currentData
  /\ p_log' = <<>>
  /\ p_computed' = 0
  /\ UNCHANGED <<p_listeners, p_closures, p_timeTimeoutId, p_timers, p_geoUnsubscribe,
                 p_geoSubs, p_currentData, p_now, g_currentPosition, p_received,
                 othersOfProvider>>

TimePasses ==
  /\ p_now < MaxNow
  /\ lastOp' = "time"
  /\ p_now' = p_now + 1
  /\ p_log' = <<>>
  /\ p_computed' = 0
  /\ p_out' = NoSolarTimeData
  /\ UNCHANGED <<p_listeners, p_closures, p_timeTimeoutId, p_timers, p_geoUnsubscribe,
                 p_geoSubs, p_currentData, g_currentPosition, p_received, othersOfProvider>>

InitProvider ==
  /\ lastOp = "init"
  /\ NoLocators
  /\ CompositeInit
  /\ TzInit({0})
  /\ GpsInit
  /\ CalcInit(Zones)
  /\ ProviderInit(ProviderPositions \cup {NoCachedPosition})
  /\ NavInit({1})
  /\ ViewInit({"zi"}, {[hours |-> 0, minutes |-> 0]})
  /\ QueryInit

NextProvider ==
  \/ \E cb \in Callbacks, immediate \in BOOLEAN : ProviderSubscribe(cb, immediate)
  \/ \E cb \in Callbacks : ProviderUnsubscribe(cb)
  \/ \E leaving \in SUBSET (Members(p_listeners) \cap p_closures) : ProviderTimerFires(leaving)
  \/ \E position \in ProviderPositions,
        leaving \in SUBSET (Members(p_listeners) \cap p_closures) :
       GeoLocatorPush(position, leaving)
  \/ \E position \in ProviderPositions \cup {NoCachedPosition} : GeoLocatorChanges(position)
  \/ ProviderGetCurrentData
  \/ TimePasses

SpecProvider == InitProvider /\ [][NextProvider]_vars

(***************************************************************************)
(* C9: the provider holds a subscription to the geolocator and a pending   *)
(* update timer if and only if it has at least one listener.               *)
(* Refuted: when the last listener leaves inside the delivery of a timer   *)
(* tick, the tick schedules the next timer afterwards, and the next        *)
(* subscriber finds the timer and does not subscribe to the geolocator.    *)
(***************************************************************************)
C9_UpdatesIffListeners ==
  /\ (Len(p_listeners) > 0) <=> (p_geoSubs > 0)
  /\ (Len(p_listeners) > 0) <=> (p_timers > 0)

(***************************************************************************)
(* C10: a position pushed by the geolocator makes the provider recompute   *)
(* its data once, from the pushed position and the clock, and deliver the  *)
(* new data to every listener it has, within the same handler; a timer     *)
(* tick and a push call the listeners in the order of registration; and no *)
(* delivery of any handler carries a civil time below one the listener     *)
(* has received before.                                                    *)
(***************************************************************************)
Delivered(listeners, data) ==
  [k \in 1..Len(listeners) |-> [cb |-> listeners[k], data |-> data]]

C10_PushRecomputesAndDelivers ==
  [][/\ lastOp' = "geoPush" =>
          /\ p_computed' = 1
          /\ p_currentData' = getCurrentSolarTimeData(g_currentPosition', p_now)
     /\ lastOp' \in {"geoPush", "timer"} =>
          p_log' = Delivered(p_listeners, p_currentData')
     /\ \A k \in DOMAIN p_log' :
          /\ p_log'[k].data.civilTime >= p_received[p_log'[k].cb]
          /\ \A j \in 1..(k - 1) : p_log'[j].data.civilTime <= p_log'[k].data.civilTime
    ]_vars

C10_Witness ==
  /\ lastOp = "geoPush"
  /\ Len(p_log) = 2
  /\ p_log[1].cb # p_log[2].cb
  /\ p_log[2].data.civilTime > 0
  /\ p_log[2].data.longitude # 0


(***************************************************************************)
(* C11: getCurrentPosition() called while permissionState is not 'granted' *)
(* rejects, calls no platform API, and leaves the cached position, the     *)
(* permission state, the watch and every other variable of the locator     *)
(* unchanged.                                                              *)
(***************************************************************************)
C11_RejectedWithoutEffect ==
  [][(lastOp' \in {"getCurrentPosition", "getCurrentPositionRejected"}
        /\ gps_permissionState # "granted")
     => (lastOp' = "getCurrentPositionRejected"
         /\ UNCHANGED <<gpsClosureVars, gps_statusDelivered>> /\ gps_statusLog' = <<>>)]_vars

C11_Witness ==
  /\ lastOp = "getCurrentPositionRejected"
  /\ gps_permissionState = "denied"
  /\ gps_currentPosition # NoGpsPosition
  /\ Len(gps_listeners) > 0

(***************************************************************************)
(* C12 as stated: the cached position has precision 'high' when the        *)
(* reported accuracy is below 100 m and 'medium' in every other case.      *)
(* Refuted by a location whose accuracy is null: it is given 'high'.       *)
(***************************************************************************)
C12_HighIffReportedBelowThreshold ==
  gps_currentPosition # NoGpsPosition =>
    gps_currentPosition.precision =
      IF gps_currentPosition.accuracyMeters # NoAccuracy
         /\ gps_currentPosition.accuracyMeters < AccuracyThreshold
      THEN "high" ELSE "medium"

(***************************************************************************)
(* C12 amended: the precision is 'high' when the accuracy is below 100 m   *)
(* or is not reported, and 'medium' when it is 100 m or more.              *)
(***************************************************************************)
C12_HighIffBelowThresholdOrUnreported ==
  gps_currentPosition # NoGpsPosition =>
    /\ gps_currentPosition.accuracyMeters = NoAccuracy
         => gps_currentPosition.precision = "high"
    /\ (gps_currentPosition.accuracyMeters # NoAccuracy
        /\ gps_currentPosition.accuracyMeters < AccuracyThreshold)
         => gps_currentPosition.precision = "high"
    /\ gps_currentPosition.accuracyMeters >= AccuracyThreshold
         => gps_currentPosition.precision = "medium"

C12_Witness ==
  /\ lastOp = "watchCallback"
  /\ gps_currentPosition.accuracyMeters = AccuracyThreshold
  /\ gps_currentPosition.precision = "medium"


\* getStatus() of the GPS locator, in the current state
gpsGetStatus == getStatusInternal(GpsState)

\* what the requestPermission() call that has just settled resolved to
requestPermissionResult ==
  IF lastOp = "requestFailed" THEN "denied" ELSE gps_permissionState

(***************************************************************************)
(* C13: getStatus().currentPrecision equals the cached position's          *)
(* precision while the watch is active and during the 120 seconds after    *)
(* the watch stops.  Stated for the first instant of that period: the step *)
(* that stops the watch and keeps the cached position leaves               *)
(* currentPrecision equal to the position's precision.                     *)
(* Refuted: the code measures the 120 seconds from the timestamp of the    *)
(* position, so a position older than that is reported as 'low' as soon as *)
(* the watch stops.                                                        *)
(***************************************************************************)
C13_PrecisionKeptWhenWatchStops ==
  [][(gps_watchSubscription /\ ~gps_watchSubscription'
        /\ gps_currentPosition' # NoGpsPosition)
     => gpsGetStatus'.currentPrecision = gps_currentPosition'.precision]_vars


(***************************************************************************)
(* C14 as stated: no status listener is called with a status equal in      *)
(* (permissionState, isAvailable, currentPrecision) to the one it was      *)
(* called with last.                                                       *)
(***************************************************************************)
C14_NoRepeatedStatus ==
  [][\A k \in DOMAIN gps_statusLog' :
       gps_statusLog'[k].status # gps_statusDelivered[gps_statusLog'[k].cb]]_vars

(***************************************************************************)
(* C14 amended: a status event emitted after a permission change or a      *)
(* position update never equals the status the listener was called with    *)
(* last; only the status delivered at once by onStatusChange may repeat    *)
(* it.                                                                     *)
(***************************************************************************)
C14_NoRepeatedEmission ==
  [][lastOp' # "onStatusChange" =>
     \A k \in DOMAIN gps_statusLog' :
       gps_statusLog'[k].status # gps_statusDelivered[gps_statusLog'[k].cb]]_vars

C14_Witness ==
  /\ lastOp = "watchCallback"
  /\ Len(gps_statusLog) = 1
  /\ gps_statusLog[1].status.currentPrecision = "medium"
  /\ gps_statusLog[1].status.permissionState = "granted"


(***************************************************************************)
(* C15: the timezone locator reports the status (granted, available, low)  *)
(* in every state; every position it delivers or returns has precision     *)
(* 'low' and the longitude (-timezoneOffsetMinutes / 60) * 15, that is a   *)
(* quarter of a degree per minute ahead of UTC; requestPermission resolves *)
(* 'granted'; getCurrentPosition returns a position.  Longitudes are in    *)
(* hundredths of a degree.                                                 *)
(***************************************************************************)
TzPositionAsClaimed(position) ==
  /\ position.precision = "low"
  /\ 4 * position.longitude = -tz_offset * 100

C15_TimezoneLocatorConstant ==
  /\ lastOp \in {"getStatus", "onStatusChange"} =>
       /\ tz_out.status.permissionState = "granted"
       /\ tz_out.status.isAvailable
       /\ tz_out.status.currentPrecision = "low"
  /\ lastOp = "requestPermission" => tz_out.permission = "granted"
  /\ lastOp = "getCurrentPosition" =>
       tz_out.position # NoTzPosition /\ TzPositionAsClaimed(tz_out.position)
  /\ \A k \in DOMAIN tz_out.delivered : TzPositionAsClaimed(tz_out.delivered[k].position)
  /\ lastOp = "subscribe" => Len(tz_out.delivered) = 1
  /\ lastOp = "timer" => Len(tz_out.delivered) = Len(tz_listeners)

C15_Witness ==
  /\ lastOp = "timer"
  /\ Len(tz_out.delivered) = 2
  /\ tz_out.delivered[2].position.longitude = 8625


(***************************************************************************)
(* C16 (GPS locator): when dispose() returns, the listener sets are empty  *)
(* and no platform watch is live, and the step that follows dispose()      *)
(* does not bring a watch to life either.                                  *)
(* Refuted: dispose() cannot remove a watch whose watchPositionAsync call  *)
(* is still pending; the watch starts after dispose() has returned.        *)
(***************************************************************************)
C16_DisposeReleasesEverything ==
  [][/\ lastOp' = "dispose" =>
          /\ gps_listeners' = <<>>
          /\ gps_statusListeners' = <<>>
          /\ gps_watches' = 0
     /\ (lastOp = "dispose" /\ lastOp' = "watchStarted") => gps_watches' = 0
    ]_vars


(***************************************************************************)
(* C17: after dispose() of the composite no underlying locator has a       *)
(* subscription of it, the re-evaluation timer is stopped, and the         *)
(* listener set, the current-best locator id and the cached position are   *)
(* cleared.                                                                *)
(* Refuted: dispose() does not assign currentPosition.                     *)
(***************************************************************************)
C17_DisposeClearsEverything ==
  lastOp = "dispose" =>
    /\ Subscribed = {}
    /\ c_unsubscribers = {}
    /\ ~c_reevaluationInterval
    /\ c_timers = 0
    /\ c_listeners = <<>>
    /\ c_currentBestLocatorId = NoId
    /\ c_currentPosition = NoPosition


(***************************************************************************)
(* Calls of calculateTrueSolarTime.                                        *)
(***************************************************************************)
\* a call of calculateTrueSolarTime; the zone's own central meridian is among
\* the longitudes
Calculate(civilTime, longitude) ==
  /\ lastOp' = "calculateTrueSolarTime"
  /\ sol_civilTime' = civilTime
  /\ sol_longitude' = longitude
  /\ sol_result' = calculateTrueSolarTime(sol_zone, civilTime, longitude)
  /\ sol_previous' = [computed |-> sol_result # NoSolarResult \/ lastOp # "init",
                      civilTime |-> sol_civilTime, longitude |-> sol_longitude,
                      offsetMinutes |-> sol_result.offsetMinutes]
  /\ UNCHANGED <<sol_zone, sh_solarTime, sh_result, sh_previous, sh_run, sh_sinceChange,
                 othersOfCalc>>

InitSolar ==
  /\ lastOp = "init"
  /\ NoLocators
  /\ CompositeInit
  /\ TzInit({0})
  /\ GpsInit
  /\ CalcInit(Zones)
  /\ ProviderInit({NoCachedPosition})
  /\ NavInit({1})
  /\ ViewInit({"zi"}, {[hours |-> 0, minutes |-> 0]})
  /\ QueryInit

NextSolar ==
  \E civilTime \in CivilTimes,
     longitude \in SolarLongitudes \cup {sol_zone.standard * 25} :
    Calculate(civilTime, longitude)

SpecSolar == InitSolar /\ [][NextSolar]_vars

(***************************************************************************)
(* C18: for a fixed zone and longitude, offsetMinutes is the same for      *)
(* every civil time of the year, whether or not DST is in effect then.     *)
(***************************************************************************)
C18_DstNeutral ==
  (sol_previous.computed /\ sol_previous.longitude = sol_longitude)
    => sol_result.offsetMinutes = sol_previous.offsetMinutes

C18_Witness ==
  /\ sol_previous.computed
  /\ sol_previous.longitude = sol_longitude
  /\ sol_previous.civilTime.month \in sol_zone.dst
  /\ sol_civilTime.month \notin sol_zone.dst
  /\ sol_zone.shift = 60
  /\ sol_result.offsetMinutes # 0

(***************************************************************************)
(* C19: offsetMinutes is linear in the longitude, 4 minutes per degree,    *)
(* zero at the standard central meridian (standardOffsetMinutes/60*15),    *)
(* and not clamped: offset(L + D) - offset(L) = 4 * D for all L and D.     *)
(***************************************************************************)
C19_LinearInLongitude ==
  /\ sol_previous.computed =>
       sol_result.offsetMinutes - sol_previous.offsetMinutes
         = 4 * (sol_longitude - sol_previous.longitude)
  /\ (lastOp = "calculateTrueSolarTime" /\ 4 * sol_longitude = sol_zone.standard * 100)
       => sol_result.offsetMinutes = 0

C19_Witness ==
  /\ sol_previous.computed
  /\ sol_longitude - sol_previous.longitude = 1500
  /\ sol_result.offsetMinutes - sol_previous.offsetMinutes = 6000
  /\ sol_result.offsetMinutes > 72000


(***************************************************************************)
(* Calls of getShichenFromSolarTime.                                       *)
(***************************************************************************)
\* the solar time one minute later
nextMinute(solarTime) ==
  LET total == (solarTime.hours * 60 + solarTime.minutes + 1) % MinutesPerDay
  IN [hours |-> total \div 60, minutes |-> total % 60]

\* the first call, for any solar time of the day
ShichenAt(solarTime) ==
  /\ sh_result = NoShichen
  /\ lastOp' = "getShichen"
  /\ sh_solarTime' = solarTime
  /\ sh_result' = getShichenFromSolarTime(solarTime)
  /\ sh_previous' = NoShichen
  /\ sh_run' = 1
  /\ sh_sinceChange' = FALSE
  /\ UNCHANGED <<sol_zone, sol_civilTime, sol_longitude, sol_result, sol_previous,
                 othersOfCalc>>

\* the next call, for the solar time one minute after the last one
ShichenNextMinute ==
  /\ sh_result # NoShichen
  /\ lastOp' = "getShichenNextMinute"
  /\ sh_solarTime' = nextMinute(sh_solarTime)
  /\ sh_result' = getShichenFromSolarTime(sh_solarTime')
  /\ sh_previous' = sh_result
  /\ IF sh_result'.branch = sh_result.branch
     THEN sh_run' = sh_run + 1 /\ UNCHANGED sh_sinceChange
     ELSE sh_run' = 1 /\ sh_sinceChange' = TRUE
  /\ UNCHANGED <<sol_zone, sol_civilTime, sol_longitude, sol_result, sol_previous,
                 othersOfCalc>>

InitShichen ==
  /\ lastOp = "init"
  /\ NoLocators
  /\ CompositeInit
  /\ TzInit({0})
  /\ GpsInit
  /\ CalcInit({[standard |-> 0, shift |-> 0, dst |-> {}]})
  /\ ProviderInit({NoCachedPosition})
  /\ NavInit({1})
  /\ ViewInit({"zi"}, {[hours |-> 0, minutes |-> 0]})
  /\ QueryInit

NextShichen ==
  \/ \E solarTime \in SolarTimes : ShichenAt(solarTime)
  \/ ShichenNextMinute

SpecShichen == InitShichen /\ [][NextShichen]_vars

(***************************************************************************)
(* C20: for each of the 1440 (hour, minute) values the index is in 0..11   *)
(* and the branch is the one at that index in the order zi, chou, yin,     *)
(* mao, chen, si, wu, wei, shen, you, xu, hai; from one minute to the next *)
(* the branch changes exactly at 23:00, 01:00, 03:00, ..., 21:00; and each *)
(* branch lasts exactly 120 minutes.                                       *)
(***************************************************************************)
C20_BranchOrder ==
  <<"zi", "chou", "yin", "mao", "chen", "si", "wu", "wei", "shen", "you", "xu", "hai">>

C20_IsBoundary(solarTime) ==
  solarTime.minutes = 0 /\ solarTime.hours % 2 = 1

C20_TotalCoverage ==
  sh_result # NoShichen =>
    /\ sh_result.index \in 0..11
    /\ sh_result.branch = C20_BranchOrder[sh_result.index + 1]
    /\ sh_previous # NoShichen =>
         ((sh_previous.branch # sh_result.branch) <=> C20_IsBoundary(sh_solarTime))
    /\ sh_run <= 120
    /\ (sh_sinceChange /\ C20_IsBoundary(nextMinute(sh_solarTime))) => sh_run = 120

C20_Witness ==
  /\ lastOp = "getShichenNextMinute"
  /\ sh_solarTime = [hours |-> 23, minutes |-> 0]
  /\ sh_result.branch = "zi"
  /\ sh_previous.branch = "hai"
  /\ sh_sinceChange

(***************************************************************************)
(* C21: a double-hour is closed on its start minute and open on its end    *)
(* minute.  At HH:00 for odd HH the result is the branch that starts there *)
(* (23:00 zi, 01:00 chou, ..., 13:00 wei, ..., 21:00 hai) with progress 0  *)
(* and minutesToNext 120, and the call for the minute before returned the  *)
(* previous branch of the cycle, in its last minute.                       *)
(***************************************************************************)
C21_StartsAt ==
  [h \in {23, 1, 3, 5, 7, 9, 11, 13, 15, 17, 19, 21} |->
     CASE h = 23 -> "zi"   [] h = 1  -> "chou" [] h = 3  -> "yin" [] h = 5  -> "mao"
       [] h = 7  -> "chen" [] h = 9  -> "si"   [] h = 11 -> "wu"  [] h = 13 -> "wei"
       [] h = 15 -> "shen" [] h = 17 -> "you"  [] h = 19 -> "xu"  [] h = 21 -> "hai"]

C22_Table ==
  [zi |-> 24, chou |-> 19, yin |-> 11, mao |-> 34, chen |-> 43, si |-> 1,
   wu |-> 44, wei |-> 33, shen |-> 12, you |-> 20, xu |-> 23, hai |-> 2]

C22_LiteralTable ==
  /\ sh_result # NoShichen =>
       /\ sh_result.branch \in DOMAIN C22_Table
       /\ sh_result.hexagramNumber = C22_Table[sh_result.branch]
       /\ sh_result.hexagramNumber = getSovereignHexagram(sh_result.branch).hexagramNumber
  /\ Len(EARTHLY_BRANCHES) = 12 /\ Len(SOVEREIGN_HEXAGRAMS) = 12
  /\ Len(branchOrder) = 12 /\ Len(sovereignSequence) = 12
  /\ DOMAIN sovereignHexagrams = DOMAIN C22_Table
  /\ \A i \in 1..12 :
       /\ branchOrder[i] = EARTHLY_BRANCHES[i]
       /\ sovereignSequence[i] = SOVEREIGN_HEXAGRAMS[i]
       /\ getSovereignHexagram(EARTHLY_BRANCHES[i]).hexagramNumber = SOVEREIGN_HEXAGRAMS[i]
       /\ C22_Table[EARTHLY_BRANCHES[i]] = SOVEREIGN_HEXAGRAMS[i]

C22_Witness ==
  /\ lastOp = "getShichenNextMinute"
  /\ sh_solarTime = [hours |-> 9, minutes |-> 0]
  /\ sh_result.branch = "si"
  /\ sh_result.hexagramNumber = 1
  /\ sh_previous.hexagramNumber = 43

(***************************************************************************)
(* C23: progress + minutesToNext / 120 = 1 with progress in [0, 1) and     *)
(* minutesToNext in (0, 120].  With progress kept as its numerator over    *)
(* 120: numerator + minutesToNext = 120, numerator in 0..119 and           *)
(* minutesToNext in 1..120.  (The two quotients k/120 and (120-k)/120 add  *)
(* to exactly 1 in double precision for each k in 0..119.)                 *)
(***************************************************************************)
C23_Complementary ==
  sh_result # NoShichen =>
    /\ sh_result.progress + sh_result.minutesToNext = ShichenMinutes
    /\ sh_result.progress \in 0..(ShichenMinutes - 1)
    /\ sh_result.minutesToNext \in 1..ShichenMinutes

C23_Witness ==
  /\ lastOp = "getShichen"
  /\ sh_solarTime = [hours |-> 2, minutes |-> 0]
  /\ sh_result.progress = 60
  /\ sh_result.minutesToNext = 60

(***************************************************************************)
(* C24: while the geolocator has no cached position the provider works on  *)
(* a fallback.  The data computed at construction and by every handler     *)
(* that recomputes while currentPosition is null is well formed, has       *)
(* precision 'low' and the longitude (offset / 60) * 15 of the timezone    *)
(* offset at the civil time; as long as no position has been cached since  *)
(* construction the data stays of precision 'low'; getCurrentData()        *)
(* returns the data as it is; and the data is well formed at all times.    *)
(***************************************************************************)
C24_WellFormed(data) ==
  /\ data.type = "solar-time"
  /\ data.precision \in {"high", "medium", "low"}
  /\ data.longitude \in -18000..18000
  /\ data.shichen.index \in 0..11
  /\ data.shichen.branch = EARTHLY_BRANCHES[data.shichen.index + 1]
  /\ data.earthlyBranch = data.shichen.branch
  /\ data.solarHour \in 0..23 /\ data.solarMinute \in 0..59

C24_IsFallback(data, now) ==
  /\ C24_WellFormed(data)
  /\ data.civilTime = now
  /\ data.precision = "low"
  /\ data.longitude * 60 = offsetAt(sol_zone, dateAt(now).month) * 1500

C24_FallsBackWithoutPosition ==
  /\ g_currentPosition = NoCachedPosition => C24_IsFallback(p_currentData, p_now)
  /\ [][/\ (p_computed' > 0 /\ g_currentPosition' = NoCachedPosition)
            => C24_IsFallback(p_currentData', p_now)
        /\ (g_currentPosition = NoCachedPosition /\ g_currentPosition' = NoCachedPosition
              /\ p_currentData.precision = "low")
            => p_currentData'.precision = "low"
        /\ lastOp' = "getCurrentData" => p_out' = p_currentData
        /\ C24_WellFormed(p_currentData')
        /\ \A k \in DOMAIN p_log' : C24_WellFormed(p_log'[k].data)
       ]_vars

C24_Witness ==
  /\ lastOp = "timer"
  /\ g_currentPosition = NoCachedPosition
  /\ p_computed > 0
  /\ Len(p_log) > 0
  /\ p_log[1].data.precision = "low"
  /\ p_log[1].data.longitude # 0
  /\ p_log[1].data.civilTime > 0

(***************************************************************************)
(* C25: when the platform's permission request or permission query fails,  *)
(* the error is swallowed and the locator is left with the conservative    *)
(* status: requestPermission() resolves to 'denied', and getStatus()       *)
(* afterwards reports permission 'denied' and precision 'low'.             *)
(* Refuted: the catch blocks assign nothing, so a locator that was         *)
(* 'granted' stays 'granted', keeps its watch and its position, while      *)
(* requestPermission() returned 'denied'.                                  *)
(***************************************************************************)
C25_FailureLeavesConservativeStatus ==
  lastOp \in {"requestFailed", "refreshFailed"} =>
    /\ lastOp = "requestFailed" => requestPermissionResult = "denied"
    /\ gpsGetStatus.permissionState = "denied"
    /\ gpsGetStatus.currentPrecision = "low"

(***************************************************************************)
(* C26: a watch that fails to start calls no subscriber and leaves the     *)
(* locator as it was: no handle is recorded, the listeners, the permission *)
(* and the cached position are kept, and a later start attempt is not      *)
(* blocked (with permission 'granted' and no handle, startWatching calls   *)
(* the platform again).  A one-shot fetch that fails rejects and leaves    *)
(* the cached position, the watch and the listeners unchanged.             *)
(***************************************************************************)
C26_FailuresLeaveLocatorSafe ==
  [][/\ lastOp' = "watchFailed" =>
          /\ gps_statusLog' = <<>>
          /\ UNCHANGED <<gps_listeners, gps_watchSubscription, gps_watches,
                         gps_currentPosition, gps_permissionState, gps_statusDelivered,
                         gps_lastEmittedStatus, gps_statusListeners>>
          /\ gps_pendingWatch' = gps_pendingWatch - 1
          /\ (~gps_watchSubscription' /\ gps_permissionState' = "granted")
               => startWatching(GpsState)'.pendingWatch = gps_pendingWatch' + 1
     /\ lastOp' = "positionFailed" =>
          /\ gps_statusLog' = <<>>
          /\ gps_queries'.position = gps_queries.position - 1
          /\ UNCHANGED <<gps_listeners, gps_watchSubscription, gps_watches,
                         gps_pendingWatch, gps_currentPosition, gps_permissionState,
                         gps_statusDelivered, gps_lastEmittedStatus, gps_statusListeners>>
    ]_vars

C26_Witness ==
  /\ lastOp = "watchFailed"
  /\ Len(gps_listeners) > 0
  /\ gps_permissionState = "granted"
  /\ ~gps_watchSubscription
  /\ gps_watches = 0
  /\ gps_pendingWatch = 0

(***************************************************************************)
(* C27: when requestPermission() resolves, permissionState is the          *)
(* platform's answer; if that is 'granted' and there is a position         *)
(* listener, a watch is started (running, or its start is under way); if   *)
(* it is anything else, no watch is active and the cached position is      *)
(* null; and an answer equal to the state the locator already has changes  *)
(* nothing.                                                                *)
(* Refuted: the handler acts only when the answer differs from             *)
(* permissionState, and stopWatching() and the clearing of the position    *)
(* miss a watch whose start, and a fetch whose answer, arrives later.      *)
(***************************************************************************)
C27_RequestStartsOrStopsWatching ==
  [][\A status \in ExpoStatuses : GpsRequestResolved(status) =>
       /\ gps_permissionState' = mapExpoPermissionStatus(status)
       /\ (gps_permissionState' = "granted" /\ Len(gps_listeners') > 0)
            => (gps_watchSubscription' \/ gps_pendingWatch' > 0)
       /\ gps_permissionState' # "granted"
            => (gps_watches' = 0 /\ gps_currentPosition' = NoGpsPosition)
       /\ gps_permissionState' = gps_permissionState
            => UNCHANGED <<gps_listeners, gps_watchSubscription, gps_watches,
                           gps_pendingWatch, gps_currentPosition, gps_lastEmittedStatus,
                           gps_statusListeners, gps_statusDelivered>>
    ]_vars

(***************************************************************************)
(* C29: the provider has no update timer scheduled while it has no         *)
(* listener, also after the last listener left from inside a callback the  *)
(* timer tick called; and so a subscriber attaching to a provider without  *)
(* listeners makes it subscribe to the geolocator.                         *)
(* Refuted: the tick calls scheduleNextUpdate() after updateData() without *)
(* looking at the listeners, and startUpdates() returns early on the timer *)
(* it finds.                                                               *)
(***************************************************************************)
C29_NoTimerWithoutListeners ==
  [][/\ Len(p_listeners') = 0 => (p_timers' = 0 /\ ~p_timeTimeoutId')
     /\ (lastOp' = "subscribe" /\ Len(p_listeners) = 0)
          => (p_geoSubs' > 0 /\ p_geoUnsubscribe')
    ]_vars

(***************************************************************************)
(* C30: an OS watch is active only while the locator has a position        *)
(* listener and permission 'granted'.                                      *)
(* Refuted: a watchPositionAsync call that resolves after the last         *)
(* listener left, or after permission was revoked, stores its handle and   *)
(* the watch runs on.                                                      *)
(***************************************************************************)
C30_WatchOnlyWithListenerAndPermission ==
  gps_watches > 0 => (Len(gps_listeners) > 0 /\ gps_permissionState = "granted")

(***************************************************************************)
(* TemporalNavigator.  The parent holds NavValues values in a row and      *)
(* passes the current one with its neighbours; previous is null at the     *)
(* first and next is null at the last.  A press runs the handler of the    *)
(* last render, and React renders again before the next event is handled,  *)
(* so a handler reads isTransitioning as it is.  Animated.timing moves     *)
(* fadeAnim to its target in frames and then calls the function given to   *)
(* start().                                                                *)
(***************************************************************************)
NavValues == 3
MaxNavPresses == 3
NavDirections == {"previous", "next"}

NavState ==
  [isTransitioning |-> nav_isTransitioning, opacity |-> nav_opacity,
   animation |-> nav_animation, direction |-> nav_direction, index |-> nav_index,
   accepted |-> nav_accepted, called |-> nav_called, log |-> nav_log]

\* the props previous and next
navNeighbour(index, direction) ==
  IF direction = "previous"
  THEN (IF index = 1 THEN 0 ELSE index - 1)
  ELSE (IF index = NavValues THEN 0 ELSE index + 1)

transitionTo_noGuard(st, direction) ==
  [st EXCEPT !.isTransitioning = TRUE, !.animation = "fadeOut",
             !.direction = direction, !.accepted = @ + 1, !.log = <<"fadeOut">>]

transitionTo(st, direction) ==
  IF st.isTransitioning THEN st
  ELSE [st EXCEPT !.isTransitioning = TRUE, !.animation = "fadeOut",
                  !.direction = direction, !.accepted = @ + 1, !.log = <<"fadeOut">>]

\* handlePrevious and handleNext
handlePress(st, direction) ==
  IF navNeighbour(st.index, direction) # 0 THEN transitionTo(st, direction) ELSE st

\* the function given to start() of the fade-out: the parent's handler moves
\* the current value, and the fade-in starts
fadeOutDone(st) ==
  [st EXCEPT !.index = IF st.direction = "previous" THEN @ - 1 ELSE @ + 1,
             !.called = @ + 1,
             !.animation = "fadeIn",
             !.log = @ \o <<IF st.direction = "previous" THEN "onPrevious" ELSE "onNext",
                            "fadeIn">>]

\* the function given to start() of the fade-in
fadeInDone(st) ==
  [st EXCEPT !.isTransitioning = FALSE, !.animation = "none", !.log = Append(@, "done")]

NavBecomes(st) ==
  /\ nav_isTransitioning' = st.isTransitioning
  /\ nav_opacity' = st.opacity
  /\ nav_animation' = st.animation
  /\ nav_direction' = st.direction
  /\ nav_index' = st.index
  /\ nav_accepted' = st.accepted
  /\ nav_called' = st.called
  /\ nav_log' = st.log

\* a press on the previous or the next button
NavPress(direction) ==
  /\ nav_accepted < MaxNavPresses
  /\ LET a == handlePress(NavState, direction) IN
       /\ lastOp' = IF a = NavState THEN "pressIgnored" ELSE "press"
       /\ NavBecomes(a)
  /\ UNCHANGED othersOfNav

\* one frame of the running animation
NavFrame ==
  /\ \/ nav_animation = "fadeOut" /\ nav_opacity > 0
        /\ nav_opacity' = nav_opacity - 50
     \/ nav_animation = "fadeIn" /\ nav_opacity < 100
        /\ nav_opacity' = nav_opacity + 50
  /\ lastOp' = "frame"
  /\ UNCHANGED <<nav_isTransitioning, nav_animation, nav_direction, nav_index,
                 nav_accepted, nav_called, nav_log, othersOfNav>>

NavFadeOutDone ==
  /\ nav_animation = "fadeOut"
  /\ nav_opacity = 0
  /\ lastOp' = "fadeOutDone"
  /\ NavBecomes(fadeOutDone(NavState))
  /\ UNCHANGED othersOfNav

NavFadeInDone ==
  /\ nav_animation = "fadeIn"
  /\ nav_opacity = 100
  /\ lastOp' = "fadeInDone"
  /\ NavBecomes(fadeInDone(NavState))
  /\ UNCHANGED othersOfNav

InitNavigator ==
  /\ lastOp = "init"
  /\ NoLocators
  /\ CompositeInit
  /\ TzInit({0})
  /\ GpsInit
  /\ CalcInit({[standard |-> 0, shift |-> 0, dst |-> {}]})
  /\ ProviderInit({NoCachedPosition})
  /\ NavInit(1..NavValues)
  /\ ViewInit({"zi"}, {[hours |-> 0, minutes |-> 0]})
  /\ QueryInit

NextNavigator ==
  \/ \E direction \in NavDirections : NavPress(direction)
  \/ NavFrame
  \/ NavFadeOutDone
  \/ NavFadeInDone

SpecNavigator == InitNavigator /\ [][NextNavigator]_vars

\* a transition that has started runs to its end
FairNavigator ==
  SpecNavigator /\ WF_vars(NavFrame) /\ WF_vars(NavFadeOutDone) /\ WF_vars(NavFadeInDone)

(***************************************************************************)
(* C28: a press on previous or next whose neighbour is not null, made      *)
(* while no transition runs, starts a fade-out; the steps of a transition  *)
(* are, in this order, the fade-out, one call of onPrevious or onNext (the *)
(* one of the pressed direction), the fade-in and the end, at which        *)
(* fadeAnim is 1 and isTransitioning is false; a press made while a        *)
(* transition runs changes nothing; every press that started a transition  *)
(* has called its handler once or is still fading out; and every           *)
(* transition ends.                                                        *)
(***************************************************************************)
C28_Steps(direction) ==
  <<"fadeOut", IF direction = "previous" THEN "onPrevious" ELSE "onNext", "fadeIn", "done">>

C28_IsPrefix(s, t) ==
  Len(s) <= Len(t) /\ \A k \in 1..Len(s) : s[k] = t[k]

C28_OrderedCycle ==
  /\ [](/\ nav_isTransitioning <=> nav_animation # "none"
        /\ nav_direction # "none" => C28_IsPrefix(nav_log, C28_Steps(nav_direction))
        /\ nav_animation = "none" =>
             (nav_opacity = 100 /\ nav_called = nav_accepted
               /\ (nav_log = <<>> \/ nav_log = C28_Steps(nav_direction)))
        /\ nav_animation = "fadeOut" =>
             (nav_called = nav_accepted - 1 /\ nav_log = <<"fadeOut">>)
        /\ nav_animation = "fadeIn" =>
             (nav_called = nav_accepted /\ Len(nav_log) = 3))
  /\ [][/\ lastOp' = "press" =>
            (~nav_isTransitioning /\ nav_animation' = "fadeOut"
              /\ nav_accepted' = nav_accepted + 1 /\ nav_called' = nav_called)
        /\ (lastOp' \in {"press", "pressIgnored"} /\ nav_isTransitioning) =>
            (lastOp' = "pressIgnored" /\ UNCHANGED navVars)
        /\ lastOp' = "fadeOutDone" =>
            (nav_called' = nav_called + 1
              /\ nav_index' = navNeighbour(nav_index, nav_direction))
       ]_vars
  /\ (nav_isTransitioning ~> (~nav_isTransitioning /\ nav_opacity = 100))

C28_Witness ==
  /\ lastOp = "pressIgnored"
  /\ nav_isTransitioning
  /\ nav_animation = "fadeIn"
  /\ nav_log = <<"fadeOut", "onPrevious", "fadeIn">>
  /\ nav_accepted = 2
  /\ nav_called = 2
  /\ navNeighbour(nav_index, "next") # 0

(***************************************************************************)
(* C31: at most one watch started through watchPositionAsync is live, and  *)
(* a live watch is the one watchSubscription refers to.                    *)
(* Refuted: startWatching() looks at watchSubscription only, which is      *)
(* null while an earlier watchPositionAsync call is pending; both calls    *)
(* resolve, the second handle replaces the first, and the first watch can  *)
(* no longer be removed.                                                   *)
(***************************************************************************)
C31_NoLeakedWatch ==
  /\ gps_watches <= 1
  /\ gps_watches = (IF gps_watchSubscription THEN 1 ELSE 0)

(***************************************************************************)
(* C32: the answer of a permission query issued earlier does not overwrite *)
(* the answer of a request issued later.  When requestPermission() has     *)
(* resolved while a permission query issued before it was pending, and the *)
(* locator is 'granted', the arrival of that older answer leaves           *)
(* permissionState, the watch and the cached position as they are.         *)
(* Refuted: refreshPermissionState() applies whatever answer arrives.      *)
(***************************************************************************)
C32_OlderAnswerDoesNotOverwrite ==
  [][(lastOp' = "refreshResolved" /\ gps_queries.overtaken
       /\ gps_permissionState = "granted")
     => UNCHANGED <<gps_permissionState, gps_watchSubscription, gps_watches,
                    gps_pendingWatch, gps_currentPosition>>]_vars

(***************************************************************************)
(* C33: whenever permissionState is not 'granted' the locator has no       *)
(* cached position.                                                        *)
(* Refuted: a one-shot fetch that resolves, or a watch callback that       *)
(* arrives, after the permission was revoked stores its position.          *)
(***************************************************************************)
C33_NoPositionWithoutPermission ==
  gps_permissionState # "granted" => gps_currentPosition = NoGpsPosition

(***************************************************************************)
(* C34: once the GPS locator is quiescent (no platform call pending, no    *)
(* watch start pending, the cached position not aged), the status last     *)
(* pushed to every registered status listener equals getStatus().          *)
(* Refuted: the watch callback emits only for the first position, and the  *)
(* one-shot fetch and the start of the watch emit nothing.                 *)
(***************************************************************************)
C34_Quiescent ==
  /\ gps_queries.refresh = 0 /\ gps_queries.request = 0 /\ gps_queries.position = 0
  /\ gps_pendingWatch = 0
  /\ gps_currentPosition = NoGpsPosition \/ gps_currentPosition.fresh

C34_PushedStatusIsCurrent ==
  C34_Quiescent =>
    \A cb \in Members(gps_statusListeners) : gps_statusDelivered[cb] = gpsGetStatus

(***************************************************************************)
(* C35: while the composite has a subscriber, after the re-evaluation tick *)
(* that follows a change of an underlying locator's status, the cached     *)
(* position has the precision getStatus() reports and was produced by the  *)
(* locator that is active now.                                             *)
(* Refuted: updateSubscriptions() moves the subscription and leaves        *)
(* currentPosition as it was; it is replaced only when the newly active    *)
(* locator delivers a position.                                            *)
(***************************************************************************)
C35_CachedPositionIsOfActiveLocator ==
  [][(lastOp = "statusChange" /\ lastOp' = "tick" /\ Len(c_listeners) > 0
        /\ c_currentPosition' # NoPosition)
     => /\ c_currentPosition'.precision = getStatus'.currentPrecision
        /\ c_currentPosition'.source = c_currentBestLocatorId']_vars

(***************************************************************************)
(* C36: the timezone locator has at most one polling timer at any time and *)
(* none while it has no listener, also when the same callback function is  *)
(* subscribed more than once.                                              *)
(* Refuted: the timer is started whenever the listener set has size 1      *)
(* after the add, which is also the case when the only listener subscribes *)
(* again; the first timer's handle is overwritten and never cleared.       *)
(***************************************************************************)
C36_AtMostOneTimer ==
  /\ tz_timers <= 1
  /\ Len(tz_listeners) = 0 => tz_timers = 0

(***************************************************************************)
(* C37: when the position is a timezone-based estimate (the provider's     *)
(* inline fallback, or the position of the timezone locator), the          *)
(* solarOffsetMinutes of the resulting data does not depend on DST: the    *)
(* estimated longitude is the standard central meridian, so the offset is  *)
(* zero in every month.                                                    *)
(* Refuted: both estimates use the current offset, DST included, while     *)
(* calculateTrueSolarTime subtracts the standard meridian.                 *)
(***************************************************************************)
C37_TimezoneLocatorPosition ==
  [longitude |-> getTimezoneBasedLongitude(-offsetAt(sol_zone, dateAt(p_now).month)),
   precision |-> tzCurrentPosition(0).precision]

C37_EstimateIsDstNeutral ==
  /\ g_currentPosition = NoCachedPosition
       => getCurrentSolarTimeData(g_currentPosition, p_now).solarOffsetMinutes = 0
  /\ (p_currentData.precision = "low" /\ p_computed > 0)
       => p_currentData.solarOffsetMinutes = 0
  /\ getCurrentSolarTimeData(C37_TimezoneLocatorPosition, p_now).solarOffsetMinutes = 0

(***************************************************************************)
(* HoursView: the handlers TemporalNavigator calls, each followed by the   *)
(* render React makes for the new state.                                   *)
(***************************************************************************)
\* onPrevious: setViewingOffset(offset => offset - 1)
HoursPrevious ==
  /\ hv_viewingOffset > -MaxViewingOffset
  /\ lastOp' = "onPrevious"
  /\ hv_viewingOffset' = hv_viewingOffset - 1
  /\ hv_hourData' = hoursProps(hv_currentBranch, hv_viewingOffset')
  /\ UNCHANGED <<hv_currentBranch, pt_time, pt_timeData, othersOfView>>

\* onNext: setViewingOffset(offset => offset + 1)
HoursNext ==
  /\ hv_viewingOffset < MaxViewingOffset
  /\ lastOp' = "onNext"
  /\ hv_viewingOffset' = hv_viewingOffset + 1
  /\ hv_hourData' = hoursProps(hv_currentBranch, hv_viewingOffset')
  /\ UNCHANGED <<hv_currentBranch, pt_time, pt_timeData, othersOfView>>

\* the solar-time situation moves on to another branch; the offset is kept
HoursBranchChanges(branch) ==
  /\ branch # hv_currentBranch
  /\ lastOp' = "branchChange"
  /\ hv_currentBranch' = branch
  /\ hv_hourData' = hoursProps(branch, hv_viewingOffset)
  /\ UNCHANGED <<hv_viewingOffset, pt_time, pt_timeData, othersOfView>>

InitHours ==
  /\ lastOp = "init"
  /\ NoLocators
  /\ CompositeInit
  /\ TzInit({0})
  /\ GpsInit
  /\ CalcInit({[standard |-> 0, shift |-> 0, dst |-> {}]})
  /\ ProviderInit({NoCachedPosition})
  /\ NavInit({1})
  /\ ViewInit(Members(BRANCH_ORDER), {[hours |-> 0, minutes |-> 0]})
  /\ QueryInit

NextHours ==
  \/ HoursPrevious
  \/ HoursNext
  \/ \E branch \in Members(BRANCH_ORDER) : HoursBranchChanges(branch)

SpecHours == InitHours /\ [][NextHours]_vars

(***************************************************************************)
(* C38: for every viewing offset reached by previous/next navigation from  *)
(* offset 0 and every current branch, the branch of each of the three      *)
(* props is one of the 12 branches, the one (currentIndex + offset) modulo *)
(* 12 positions along the cycle.                                           *)
(* Refuted: the remainder is negative for offsets below -12 - currentIndex *)
(* and the array has no element there.                                     *)
(***************************************************************************)
C38_BranchAt(offset) ==
  BRANCH_ORDER[((indexOf(BRANCH_ORDER, hv_currentBranch) + offset) % 12) + 1]

C38_OffsetBranchDefined ==
  /\ hv_hourData.current.branch = C38_BranchAt(hv_viewingOffset)
  /\ hv_hourData.previous.branch = C38_BranchAt(hv_viewingOffset - 1)
  /\ hv_hourData.next.branch = C38_BranchAt(hv_viewingOffset + 1)

(***************************************************************************)
(* provider-time: a reading of the clock by getCurrentTimeData().          *)
(***************************************************************************)
TimeUpdate(now) ==
  /\ lastOp' = "getCurrentTimeData"
  /\ pt_time' = now
  /\ pt_timeData' = getCurrentTimeData(now)
  /\ UNCHANGED <<hv_currentBranch, hv_viewingOffset, hv_hourData, othersOfView>>

InitTime ==
  /\ lastOp = "init"
  /\ NoLocators
  /\ CompositeInit
  /\ TzInit({0})
  /\ GpsInit
  /\ CalcInit({[standard |-> 0, shift |-> 0, dst |-> {}]})
  /\ ProviderInit({NoCachedPosition})
  /\ NavInit({1})
  /\ ViewInit({"zi"}, {[hours |-> 0, minutes |-> 0]})
  /\ QueryInit

NextTime == \E now \in SolarTimes : TimeUpdate(now)

SpecTime == InitTime /\ [][NextTime]_vars

(***************************************************************************)
(* C39: for every hour and minute of the day, provider-time's branch       *)
(* index, branch and progress are those getShichenFromSolarTime returns    *)
(* for the same hour and minute, and the two branch arrays are the same.   *)
(***************************************************************************)
C39_SameBranchAsShichen ==
  LET shichen == getShichenFromSolarTime(pt_time)
  IN /\ pt_timeData.earthlyBranchIndex = shichen.index
     /\ pt_timeData.branchProgress = shichen.progress
     /\ pt_timeData.earthlyBranch = shichen.branch
     /\ EARTHLY_BRANCHES_time = EARTHLY_BRANCHES

\* C39 witness: 23:30 has been read: half an hour into zi, index 0, for both
C39_Witness ==
  /\ lastOp = "getCurrentTimeData"
  /\ pt_time = [hours |-> 23, minutes |-> 30]
  /\ pt_timeData.earthlyBranchIndex = 0
  /\ pt_timeData.branchProgress = 30
  /\ getShichenFromSolarTime(pt_time).branch = "zi"

=============================================================================
